---- MODULE Spec2Model ----
(***************************************************************************)
(* Tenant-isolation and resource-governance layer of lms-logos:            *)
(* organization-scoped cache, rate limiter, credential resolution, access  *)
(* decisions and the API wrapper with its audit trail.                     *)
(*                                                                         *)
(* Strings of the program are modelled as sequences of one-character       *)
(* strings, so that key construction, split(':') and startsWith are        *)
(* computed the way the code computes them.                                *)
(***************************************************************************)
EXTENDS Integers, Sequences, FiniteSets, TLC

VARIABLES
    now,          \* Date.now(), in milliseconds
    memoryCache,  \* cache-utils.ts: const memoryCache = new Map<string, CacheItem>()
    cacheTable,   \* rows of the 'cache' table used by OrganizationCache / DatabaseUtils
    cacheImpl,    \* which cache module the application imports: "memory" or "table"
    cacheRes,     \* the last cache call and what it returned to its caller
    cacheOps,     \* number of cache calls made so far
    rateStore,    \* rows of the 'rate_limits' table, by key
    rl,           \* the calls of RateLimiter.check: position, locals and result of each
    az,           \* the last credential-resolution or access-decision call and its result
    apiReq,       \* the API request being handled: position, inputs, context, response
    apiCount,     \* number of API requests received so far
    auditPending, \* audit inserts issued and not yet executed by the store
    auditLogs,    \* rows of the 'audit_logs' table
    resource,     \* the authoritative value of the resource (version of the enrollments rows)
    rd,           \* the calls of DatabaseUtils.getCachedData: position, locals and result of each
    mut,          \* the resource-mutating operation: position and number of completed writes
    users,        \* ids of the rows of the 'users' table that audit rows may reference
    auditCall,    \* the last audit-trail operation and what it gave its caller
    auditCreated, \* every audit row as it was when it was inserted, in order of insertion
    outbox,       \* the messages the email provider has accepted, in order
    emailCall,    \* the last call of the email service and what it gave its caller
    cacheJobs,    \* the cache-store calls made so far: position, locals, order of application
    schemaMigrations, \* versions recorded in the 'schema_migrations' table
    executions,   \* versions of the migrations whose SQL was executed, in order of execution
    run           \* the call of MigrationRunner.runMigrations: position, pending list, result

cacheVars == <<memoryCache, cacheTable, cacheImpl, cacheRes, cacheOps>>
rateVars == <<rateStore, rl>>
authVars == <<az>>
apiVars == <<apiReq, apiCount, auditPending, auditLogs>>
dbVars == <<resource, rd, mut>>
auditVars == <<users, auditCall, auditCreated>>
emailVars == <<outbox, emailCall>>
storeVars == <<cacheJobs>>
migrationVars == <<schemaMigrations, executions, run>>
vars == <<now, cacheVars, rateVars, authVars, apiVars, dbVars, auditVars, emailVars, storeVars, migrationVars>>

----------------------------------------------------------------------------
(* Bounds *)
MaxTime == 1500
MaxCacheOps == 3
MaxCalls == 4
MaxConcurrent == 3
MaxApiRequests == 2
MaxReaders == 2
MaxMutations == 1
MaxAuditOps == 3
MaxEmails == 2
MaxJobs == 3
MaxKeyCalls == 2
MaxMigrations == 2
MaxRuns == 3

(* Configuration of the rate limiter under test (RateLimitConfig) *)
MaxRequests == 2
WindowMs == 1000

(* Granularity of the clock *)
TickMs == 500

(* A day of the retention period, on the clock of the model *)
DayMs == TickMs

----------------------------------------------------------------------------
(* Values of the program *)
\* undefined / null where a string is expected: no real string has a part longer than one character
Undefined == <<"undefined">>
Null == <<"null">>
Delim == ":"

\* organization ids, resource types and resource ids the callers pass
OrgA == <<"a">>
OrgAT == <<"a", ":", "t">>
OrgIds == {OrgA, OrgAT}
ResourceTypes == {<<"t">>, <<"t", ":", "t">>}
ResourceIds == {Undefined, <<"i">>}
CacheVals == {1, 2}
TtlSeconds == {1}

\* a cached payload; owner is the organization whose call stored it
CacheData == [owner : OrgIds, v : CacheVals]

\* what a cache read gives its caller: null, or the data
Miss == [hit |-> FALSE]
Hit(d) == [hit |-> TRUE, data |-> d]

----------------------------------------------------------------------------
(* String helpers *)

\* does the string contain the character c
Includes(s, c) == \E i \in 1..Len(s) : s[i] = c

\* s.startsWith(p)
StartsWith(s, p) ==
    /\ Len(p) <= Len(s)
    /\ \A i \in 1..Len(p) : s[i] = p[i]

\* s.split(d): the sequence of the parts of s between occurrences of d
RECURSIVE SplitFrom(_, _, _, _)
SplitFrom(s, d, i, cur) ==
    IF i > Len(s) THEN <<cur>>
    ELSE IF s[i] = d THEN <<cur>> \o SplitFrom(s, d, i + 1, <<>>)
    ELSE SplitFrom(s, d, i + 1, Append(cur, s[i]))

Split(s, d) == SplitFrom(s, d, 1, <<>>)

\* JavaScript truthiness of an optional string
Truthy(x) == x # Undefined /\ x # Null /\ x # <<>>

----------------------------------------------------------------------------
(* Cache key construction *)

\* jwt-utils.ts createOrganizationCacheKey
createOrganizationCacheKey(organizationId, resourceType, resourceId) ==
    LET baseKey == organizationId \o <<Delim>> \o resourceType
    IN  IF Truthy(resourceId) THEN baseKey \o <<Delim>> \o resourceId ELSE baseKey

\* cache-utils.ts createCacheKey (called without additionalParams by every cache operation)
createCacheKey(organizationId, resourceType, resourceId) ==
    createOrganizationCacheKey(organizationId, resourceType, resourceId)

\* cache-utils.ts validateCacheKey
validateCacheKey(key) ==
    LET parts == Split(key, Delim)
    IN  Len(parts) >= 2 /\ \A i \in 1..Len(parts) : Len(parts[i]) > 0

\* part_010 createCacheKey: resourceId is a required string there
orgCacheCreateCacheKey(organizationId, resourceType, resourceId) ==
    organizationId \o <<Delim>> \o resourceType \o <<Delim>> \o resourceId

----------------------------------------------------------------------------
(* In-memory cache, cache-utils.ts *)

NoCall == [op |-> "none"]

\* a cache call as its caller sees it; again: it repeats the call made just before it
CacheCall(impl, op, org, type, id, result) ==
    [impl |-> impl, op |-> op, org |-> org, type |-> type, id |-> id,
     again |-> /\ cacheRes.op = op
               /\ op \in {"set", "get", "delete"}
               /\ cacheRes.impl = impl
               /\ cacheRes.org = org /\ cacheRes.type = type /\ cacheRes.id = id,
     key |-> IF impl = "table" /\ op \in {"set", "get", "delete"}
             THEN orgCacheCreateCacheKey(org, type, IF id = Undefined THEN <<>> ELSE id)
             ELSE createCacheKey(org, type, id),
     result |-> result]

MapRemove(m, ks) == [k \in (DOMAIN m) \ ks |-> m[k]]
MapPut(m, k, v) == [x \in (DOMAIN m) \cup {k} |-> IF x = k THEN v ELSE m[x]]

Expired(item, t) == t - item.timestamp > item.ttl

setCacheItem(organizationId, resourceType, resourceId, data, ttl) ==
    LET key == createCacheKey(organizationId, resourceType, resourceId)
        cacheItem == [data |-> data, timestamp |-> now, ttl |-> ttl * 1000,
                      organizationId |-> organizationId]
    IN  /\ memoryCache' = MapPut(memoryCache, key, cacheItem)
        /\ cacheRes' = CacheCall("memory", "set", organizationId, resourceType, resourceId, Undefined)

\* getCacheItem without the check that the item belongs to the caller's organization
getCacheItemResult_NoOrgCheck(organizationId, resourceType, resourceId) ==
    LET key == createCacheKey(organizationId, resourceType, resourceId)
    IN  IF key \notin DOMAIN memoryCache THEN Miss
        ELSE IF Expired(memoryCache[key], now) THEN Miss
        ELSE Hit(memoryCache[key].data)

\* what getCacheItem returns
getCacheItemResult(organizationId, resourceType, resourceId) ==
    LET key == createCacheKey(organizationId, resourceType, resourceId)
    IN  IF key \notin DOMAIN memoryCache THEN Miss
        ELSE IF memoryCache[key].organizationId # organizationId THEN Miss
        ELSE IF Expired(memoryCache[key], now) THEN Miss
        ELSE Hit(memoryCache[key].data)

getCacheItem(organizationId, resourceType, resourceId) ==
    LET key == createCacheKey(organizationId, resourceType, resourceId)
    IN  /\ memoryCache' =
              IF /\ key \in DOMAIN memoryCache
                 /\ memoryCache[key].organizationId = organizationId
                 /\ Expired(memoryCache[key], now)
              THEN MapRemove(memoryCache, {key})
              ELSE memoryCache
        /\ cacheRes' = CacheCall("memory", "get", organizationId, resourceType, resourceId,
                                 getCacheItemResult(organizationId, resourceType, resourceId))

\* deleteCacheItem that reports a deletion whether or not the key was present
deleteCacheItem_AlwaysTrue(organizationId, resourceType, resourceId) ==
    LET key == createCacheKey(organizationId, resourceType, resourceId)
    IN  /\ memoryCache' = MapRemove(memoryCache, {key})
        /\ cacheRes' = CacheCall("memory", "delete", organizationId, resourceType, resourceId,
                                 TRUE)

\* memoryCache.delete(key) returns whether the key was present
deleteCacheItem(organizationId, resourceType, resourceId) ==
    LET key == createCacheKey(organizationId, resourceType, resourceId)
    IN  /\ memoryCache' = MapRemove(memoryCache, {key})
        /\ cacheRes' = CacheCall("memory", "delete", organizationId, resourceType, resourceId,
                                 key \in DOMAIN memoryCache)

clearOrganizationCache(organizationId) ==
    LET gone == {k \in DOMAIN memoryCache : memoryCache[k].organizationId = organizationId}
    IN  /\ memoryCache' = MapRemove(memoryCache, gone)
        /\ cacheRes' = CacheCall("memory", "clearOrg", organizationId, <<>>, Undefined,
                                 Cardinality(gone))

clearResourceTypeCache(organizationId, resourceType) ==
    LET prefix == organizationId \o <<Delim>> \o resourceType
        gone == {k \in DOMAIN memoryCache :
                    StartsWith(k, prefix) /\ memoryCache[k].organizationId = organizationId}
    IN  /\ memoryCache' = MapRemove(memoryCache, gone)
        /\ cacheRes' = CacheCall("memory", "clearType", organizationId, resourceType, Undefined,
                                 Cardinality(gone))

\* a sweep that deletes every entry, expired or not
cleanupExpiredItems_All ==
    /\ memoryCache' = <<>>
    /\ cacheRes' = [op |-> "cleanup", impl |-> "memory", result |-> Cardinality(DOMAIN memoryCache)]

cleanupExpiredItems ==
    LET gone == {k \in DOMAIN memoryCache : Expired(memoryCache[k], now)}
    IN  /\ memoryCache' = MapRemove(memoryCache, gone)
        /\ cacheRes' = [op |-> "cleanup", impl |-> "memory", result |-> Cardinality(gone)]

----------------------------------------------------------------------------
(* Store-backed cache, part_010 OrganizationCache and db-utils.ts          *)
(* DatabaseUtils.  A row is identified by (organization_id, cache_key).    *)

RowsOf(org, key) == {r \in cacheTable : r.organization_id = org /\ r.cache_key = key}

\* an upsert that keeps the row already stored under the key
Upsert_KeepExisting(row) ==
    IF RowsOf(row.organization_id, row.cache_key) # {} THEN cacheTable ELSE cacheTable \cup {row}

Upsert(row) ==
    (cacheTable \ RowsOf(row.organization_id, row.cache_key)) \cup {row}

\* OrganizationCache.set
OrganizationCacheSet(organizationId, resourceType, resourceId, data, ttl) ==
    LET expiresAt == now + ttl * 1000
        cacheKey == orgCacheCreateCacheKey(organizationId, resourceType, resourceId)
    IN  /\ cacheTable' = Upsert([organization_id |-> organizationId, cache_key |-> cacheKey,
                                 data |-> data, expires_at |-> expiresAt])
        /\ cacheRes' = CacheCall("table", "set", organizationId, resourceType, resourceId, TRUE)

\* what OrganizationCache.get returns
OrganizationCacheGetResult(organizationId, resourceType, resourceId) ==
    LET cacheKey == orgCacheCreateCacheKey(organizationId, resourceType, resourceId)
        rows == {r \in cacheTable : /\ r.organization_id = organizationId
                                    /\ r.cache_key = cacheKey
                                    /\ r.expires_at > now}
    IN  IF rows = {} THEN Miss ELSE Hit((CHOOSE r \in rows : TRUE).data)

OrganizationCacheGet(organizationId, resourceType, resourceId) ==
    /\ cacheTable' = cacheTable
    /\ cacheRes' = CacheCall("table", "get", organizationId, resourceType, resourceId,
                             OrganizationCacheGetResult(organizationId, resourceType, resourceId))

\* OrganizationCache.delete
OrganizationCacheDelete(organizationId, resourceType, resourceId) ==
    LET cacheKey == orgCacheCreateCacheKey(organizationId, resourceType, resourceId)
    IN  /\ cacheTable' = cacheTable \ RowsOf(organizationId, cacheKey)
        /\ cacheRes' = CacheCall("table", "delete", organizationId, resourceType, resourceId, TRUE)

\* DatabaseUtils.getCachedData, with a fetcher that returns the organization's own data
getCachedDataResult(organizationId, resourceType, resourceId, fetched) ==
    LET cacheKey == createCacheKey(organizationId, resourceType, resourceId)
        rows == RowsOf(organizationId, cacheKey)
    IN  IF rows # {} /\ (CHOOSE r \in rows : TRUE).expires_at > now
        THEN Hit((CHOOSE r \in rows : TRUE).data)
        ELSE Hit(fetched)

getCachedData(organizationId, resourceType, resourceId, fetched, ttl) ==
    LET cacheKey == createCacheKey(organizationId, resourceType, resourceId)
        rows == RowsOf(organizationId, cacheKey)
        hit == rows # {} /\ (CHOOSE r \in rows : TRUE).expires_at > now
    IN  /\ cacheTable' =
              IF hit THEN cacheTable
              ELSE Upsert([organization_id |-> organizationId, cache_key |-> cacheKey,
                           data |-> fetched, expires_at |-> now + ttl])
        /\ cacheRes' = CacheCall("db", "get", organizationId, resourceType, resourceId,
                                 getCachedDataResult(organizationId, resourceType, resourceId, fetched))

\* DatabaseUtils.invalidateCache; it returns nothing
invalidateCache(organizationId, resourceType, resourceId) ==
    LET cacheKey == createCacheKey(organizationId, resourceType, resourceId)
    IN  /\ cacheTable' = cacheTable \ RowsOf(organizationId, cacheKey)
        /\ cacheRes' = CacheCall("db", "delete", organizationId, resourceType, resourceId,
                                 Undefined)

\* no API request has been received and the audit table is empty
ApiIdle ==
    /\ apiReq = [pc |-> "idle"]
    /\ apiCount = 0
    /\ auditPending = {}
    /\ auditLogs = {}

\* no read-through call and no mutation has been made
DbIdle ==
    /\ resource = 0
    /\ rd = <<>>
    /\ mut = [pc |-> "idle", committed |-> 0, fault |-> FALSE, error |-> ""]

\* no audit-trail operation has been made
\* no email has been sent
EmailIdle ==
    /\ outbox = <<>>
    /\ emailCall = [op |-> "none"]

\* no cache-store call has been made
StoreIdle == cacheJobs = <<>>

\* no migration has been run
MigrationIdle ==
    /\ schemaMigrations = {}
    /\ executions = <<>>
    /\ run = [pc |-> "idle", n |-> 0, pending |-> <<>>, log |-> <<>>, result |-> TRUE]

AuditIdle ==
    /\ users = {}
    /\ auditCall = [op |-> "none", n |-> 0]
    /\ auditCreated = <<>>

----------------------------------------------------------------------------
(* Actions of the cache specification *)

CacheStep(impl) ==
    /\ cacheImpl = impl
    /\ cacheOps < MaxCacheOps
    /\ cacheOps' = cacheOps + 1
    /\ UNCHANGED <<now, cacheImpl, rateVars, authVars, apiVars, dbVars, auditVars, emailVars, storeVars, migrationVars>>

SetCacheItem ==
    \E o \in OrgIds, t \in ResourceTypes, i \in ResourceIds, v \in CacheVals, ttl \in TtlSeconds :
        /\ CacheStep("memory")
        /\ setCacheItem(o, t, i, [owner |-> o, v |-> v], ttl)
        /\ UNCHANGED cacheTable

GetCacheItem ==
    \E o \in OrgIds, t \in ResourceTypes, i \in ResourceIds :
        /\ CacheStep("memory")
        /\ getCacheItem(o, t, i)
        /\ UNCHANGED cacheTable

DeleteCacheItem ==
    \E o \in OrgIds, t \in ResourceTypes, i \in ResourceIds :
        /\ CacheStep("memory")
        /\ deleteCacheItem(o, t, i)
        /\ UNCHANGED cacheTable

ClearOrganizationCache ==
    \E o \in OrgIds :
        /\ CacheStep("memory")
        /\ clearOrganizationCache(o)
        /\ UNCHANGED cacheTable

ClearResourceTypeCache ==
    \E o \in OrgIds, t \in ResourceTypes :
        /\ CacheStep("memory")
        /\ clearResourceTypeCache(o, t)
        /\ UNCHANGED cacheTable

CleanupExpiredItems ==
    /\ CacheStep("memory")
    /\ cleanupExpiredItems
    /\ UNCHANGED cacheTable

OrgCacheSet ==
    \E o \in OrgIds, t \in ResourceTypes, i \in ResourceIds \ {Undefined},
       v \in CacheVals, ttl \in TtlSeconds :
        /\ CacheStep("table")
        /\ OrganizationCacheSet(o, t, i, [owner |-> o, v |-> v], ttl)
        /\ UNCHANGED memoryCache

OrgCacheGet ==
    \E o \in OrgIds, t \in ResourceTypes, i \in ResourceIds \ {Undefined} :
        /\ CacheStep("table")
        /\ OrganizationCacheGet(o, t, i)
        /\ UNCHANGED memoryCache

OrgCacheDelete ==
    \E o \in OrgIds, t \in ResourceTypes, i \in ResourceIds \ {Undefined} :
        /\ CacheStep("table")
        /\ OrganizationCacheDelete(o, t, i)
        /\ UNCHANGED memoryCache

GetCachedData ==
    \E o \in OrgIds, t \in ResourceTypes, i \in ResourceIds, v \in CacheVals :
        /\ CacheStep("table")
        /\ getCachedData(o, t, i, [owner |-> o, v |-> v], 1000)
        /\ UNCHANGED memoryCache

InvalidateCache ==
    \E o \in OrgIds, t \in ResourceTypes, i \in ResourceIds :
        /\ CacheStep("table")
        /\ invalidateCache(o, t, i)
        /\ UNCHANGED memoryCache

Tick ==
    /\ now + TickMs <= MaxTime
    /\ now' = now + TickMs
    /\ UNCHANGED <<cacheVars, rateVars, authVars, apiVars, dbVars, auditVars, emailVars, storeVars, migrationVars>>

InitCache ==
    /\ now = 0
    /\ cacheImpl \in {"memory", "table"}
    /\ memoryCache = <<>>
    /\ cacheTable = {}
    /\ cacheRes = NoCall
    /\ cacheOps = 0
    /\ rateStore = <<>>
    /\ rl = <<>>
    /\ az = NoCall
    /\ ApiIdle
    /\ DbIdle
    /\ AuditIdle
    /\ EmailIdle
    /\ StoreIdle
    /\ MigrationIdle

NextCache ==
    \/ SetCacheItem
    \/ GetCacheItem
    \/ DeleteCacheItem
    \/ ClearOrganizationCache
    \/ ClearResourceTypeCache
    \/ CleanupExpiredItems
    \/ OrgCacheSet
    \/ OrgCacheGet
    \/ OrgCacheDelete
    \/ GetCachedData
    \/ InvalidateCache
    \/ Tick

SpecCache == InitCache /\ [][NextCache]_vars

----------------------------------------------------------------------------
(* Rate limiter, middleware/rate-limiter.ts *)

\* requests as the key generators see them: the x-organization-id and
\* x-forwarded-for headers
RateRequests ==
    { [xorg |-> OrgA, fwd |-> <<"c">>, xuser |-> Undefined],
      [xorg |-> OrgAT, fwd |-> <<"c">>, xuser |-> Undefined] }

RateLimitPrefix == <<"r">>

\* RateLimiter.defaultKeyGenerator: `rate_limit:${organizationId}:${ip}`
defaultKeyGenerator(req) ==
    LET ip == IF Truthy(req.fwd) THEN Split(req.fwd, ",")[1] ELSE <<"u">>
        organizationId == IF Truthy(req.xorg) THEN req.xorg ELSE <<"n">>
    IN  RateLimitPrefix \o <<Delim>> \o organizationId \o <<Delim>> \o ip

Max(a, b) == IF a >= b THEN a ELSE b

Calls == 1..Max(MaxCalls, MaxConcurrent)

IdleCall == [pc |-> "idle"]

HasEntry(key) == key \in DOMAIN rateStore

\* the entry check would use if an elapsed window were never replaced
currentEntryOf_NoExpiry(key, t) ==
    IF ~HasEntry(key)
    THEN [count |-> 0, resetTime |-> t + WindowMs, blocked |-> FALSE]
    ELSE [count |-> rateStore[key].count, resetTime |-> rateStore[key].reset_time,
          blocked |-> rateStore[key].blocked]

\* RateLimiter.check, lines 106-122: the entry the decision is made on
currentEntryOf(key, t) ==
    IF (~HasEntry(key)) \/ rateStore[key].reset_time < t
    THEN [count |-> 0, resetTime |-> t + WindowMs, blocked |-> FALSE]
    ELSE [count |-> rateStore[key].count, resetTime |-> rateStore[key].reset_time,
          blocked |-> rateStore[key].blocked]

\* Math.ceil(a / b) for a >= 0, b > 0
CeilDiv(a, b) == (a + b - 1) \div b

\* RateLimitInfo; retryAfter is present on denied results only
RateInfo(remaining, reset) ==
    [limit |-> MaxRequests, remaining |-> remaining, reset |-> reset]

\* the info of a denial whose window restarts at the denied request
DeniedInfo_ExtendsWindow(reset, t) ==
    [limit |-> MaxRequests, remaining |-> 0, reset |-> t + WindowMs,
     retryAfter |-> CeilDiv(WindowMs, 1000)]

DeniedInfo(reset, t) ==
    [limit |-> MaxRequests, remaining |-> 0, reset |-> reset,
     retryAfter |-> CeilDiv(reset - t, 1000)]

\* check returns no response with an allowed result
NoResponse == [kind |-> "none"]

\* RateLimiter.createRateLimitResponse, with standardHeaders (the default):
\* status 429, X-RateLimit-Limit / -Remaining / -Reset and Retry-After
createRateLimitResponse(retryAfter, t) ==
    [kind |-> "response", status |-> 429,
     headers |-> [limit |-> MaxRequests, remaining |-> 0,
                  reset |-> CeilDiv(t, 1000) + retryAfter,
                  retryAfter |-> retryAfter]]

\* what the middleware made by createRateLimiter returns for a result of
\* check: the 429 response, or null to let the request continue
createRateLimiter(result) ==
    IF ~result.allowed THEN result.response ELSE NoResponse

\* the result check returns when the store fails: the request is allowed
FailOpen(t) ==
    [allowed |-> TRUE, info |-> RateInfo(MaxRequests, t + WindowMs),
     response |-> NoResponse]

\* the result of a denied check
Denied(reset, t) ==
    [allowed |-> FALSE, info |-> DeniedInfo(reset, t),
     response |-> createRateLimitResponse(DeniedInfo(reset, t).retryAfter, t)]

\* who a check is made for: the organization of the x-organization-id header, the client
\* address or the user the counter is kept for, and the endpoint of an endpoint limiter
SubjectOf(req, kind, endpoint) ==
    [organization |-> req.xorg,
     identity |-> [kind |-> kind,
                   id |-> IF kind = "user" THEN req.xuser
                          ELSE IF Truthy(req.fwd) THEN Split(req.fwd, ",")[1] ELSE Undefined],
     endpoint |-> endpoint]

\* check is called: the key and Date.now() are taken, the select is issued
RlCall(p, req) ==
    /\ rl[p].pc = "idle"
    /\ \A q \in 1..(p - 1) : rl[q].pc # "idle"
    /\ rl' = [rl EXCEPT ![p] = [pc |-> "select", key |-> defaultKeyGenerator(req),
                                 subject |-> SubjectOf(req, "ip", Undefined),
                                 now |-> now, fault |-> FALSE]]
    /\ UNCHANGED rateStore

\* the select completes and check runs up to its next await or its return
RlSelect(p, storeError) ==
    /\ rl[p].pc = "select"
    /\ LET key == rl[p].key
           t == rl[p].now
           currentEntry == currentEntryOf(key, t)
       IN  rl' = [rl EXCEPT ![p] =
              IF storeError
              THEN [pc |-> "done", key |-> key, subject |-> rl[p].subject, now |-> t, fault |-> TRUE,
                    result |-> FailOpen(t), returned |-> createRateLimiter(FailOpen(t))]
              ELSE IF currentEntry.blocked /\ currentEntry.resetTime > t
              THEN [pc |-> "done", key |-> key, subject |-> rl[p].subject, now |-> t, fault |-> FALSE,
                    result |-> Denied(currentEntry.resetTime, t),
                    returned |-> createRateLimiter(Denied(currentEntry.resetTime, t))]
              ELSE IF currentEntry.count >= MaxRequests
              THEN [pc |-> "upsert", key |-> key, subject |-> rl[p].subject, now |-> t, fault |-> FALSE,
                    entry |-> [count |-> MaxRequests, resetTime |-> currentEntry.resetTime,
                               blocked |-> TRUE],
                    result |-> Denied(currentEntry.resetTime, t)]
              ELSE [pc |-> "upsert", key |-> key, subject |-> rl[p].subject, now |-> t, fault |-> FALSE,
                    entry |-> [count |-> currentEntry.count + 1,
                               resetTime |-> currentEntry.resetTime,
                               blocked |-> currentEntry.blocked],
                    result |-> [allowed |-> TRUE,
                                info |-> RateInfo(Max(0, MaxRequests - (currentEntry.count + 1)),
                                                  currentEntry.resetTime),
                                response |-> NoResponse]]]
    /\ UNCHANGED rateStore

\* an update that adds one to the stored count instead of writing the count check computed
RlUpsert_Increments(p, storeError) ==
    /\ rl[p].pc = "upsert"
    /\ rateStore' =
          IF storeError THEN rateStore
          ELSE MapPut(rateStore, rl[p].key,
                      [count |-> IF HasEntry(rl[p].key) THEN rateStore[rl[p].key].count + 1
                                 ELSE 1,
                       reset_time |-> rl[p].entry.resetTime,
                       blocked |-> rl[p].entry.blocked])
    /\ rl' = [rl EXCEPT ![p] = [pc |-> "done", key |-> rl[p].key, subject |-> rl[p].subject,
                                 now |-> rl[p].now,
                                 fault |-> rl[p].fault \/ storeError,
                                 result |-> rl[p].result,
                                 returned |-> createRateLimiter(rl[p].result)]]

\* RateLimiter.updateRateLimitEntry: the upsert completes (or fails, which is
\* ignored) and check returns its result
RlUpsert(p, storeError) ==
    /\ rl[p].pc = "upsert"
    /\ rateStore' =
          IF storeError THEN rateStore
          ELSE MapPut(rateStore, rl[p].key,
                      [count |-> rl[p].entry.count, reset_time |-> rl[p].entry.resetTime,
                       blocked |-> rl[p].entry.blocked])
    /\ rl' = [rl EXCEPT ![p] = [pc |-> "done", key |-> rl[p].key, subject |-> rl[p].subject,
                                 now |-> rl[p].now,
                                 fault |-> rl[p].fault \/ storeError,
                                 result |-> rl[p].result,
                                 returned |-> createRateLimiter(rl[p].result)]]

InFlight == {q \in Calls : rl[q].pc \in {"select", "upsert"}}

RateStep == UNCHANGED <<now, cacheVars, authVars, apiVars, dbVars, auditVars, emailVars, storeVars, migrationVars>>

Check ==
    \E p \in 1..MaxConcurrent, req \in RateRequests :
        RlCall(p, req) /\ RateStep
CheckSequential ==
    \E p \in Calls, req \in RateRequests :
        InFlight = {} /\ RlCall(p, req) /\ RateStep
Select == \E p \in Calls : RlSelect(p, FALSE) /\ RateStep
SelectError == \E p \in Calls : RlSelect(p, TRUE) /\ RateStep
UpdateRateLimitEntry == \E p \in Calls : RlUpsert(p, FALSE) /\ RateStep
UpdateRateLimitEntryError == \E p \in Calls : RlUpsert(p, TRUE) /\ RateStep

InitRate ==
    /\ now = 0
    /\ cacheImpl = "memory"
    /\ memoryCache = <<>>
    /\ cacheTable = {}
    /\ cacheRes = NoCall
    /\ cacheOps = 0
    /\ rateStore = <<>>
    /\ rl = [p \in Calls |-> IdleCall]
    /\ az = NoCall
    /\ ApiIdle
    /\ DbIdle
    /\ AuditIdle
    /\ EmailIdle
    /\ StoreIdle
    /\ MigrationIdle

NextRate ==
    \/ Check
    \/ Select
    \/ SelectError
    \/ UpdateRateLimitEntry
    \/ UpdateRateLimitEntryError
    \/ Tick

\* concurrent calls of check
SpecRate == InitRate /\ [][NextRate]_vars

NextRateSeq ==
    \/ CheckSequential
    \/ Select
    \/ SelectError
    \/ UpdateRateLimitEntry
    \/ UpdateRateLimitEntryError
    \/ Tick

\* calls of check made one after the other
SpecRateSeq == InitRate /\ [][NextRateSeq]_vars

----------------------------------------------------------------------------
(* Credential resolution and access decisions, jwt-utils.ts, auth.ts,      *)
(* auth-middleware.ts                                                      *)

Roles == {"super_admin", "org_admin", "mentor", "learner"}
AuthActions == {"create_organization", "manage_users", "create_courses",
                "enroll_courses", "view_analytics", "delete_everything"}

\* organization ids as they reach the access checks: set, undefined, null or ''
AuthOrgs == {OrgA, OrgAT, Undefined, Null, <<>>}

UserU == <<"u">>

\* jwt-utils.ts hasAdminPermissions, hasMentorPermissions, hasLearnerPermissions
hasAdminPermissions(userRole) == userRole = "org_admin" \/ userRole = "super_admin"
hasMentorPermissions(userRole) == userRole = "mentor" \/ hasAdminPermissions(userRole)
hasLearnerPermissions(userRole) == userRole = "learner" \/ hasAdminPermissions(userRole)

\* jwt-utils.ts canPerformAction
canPerformAction(userRole, targetOrganizationId, userOrganizationId, action) ==
    IF userRole = "super_admin" THEN TRUE
    ELSE IF userOrganizationId # targetOrganizationId THEN FALSE
    ELSE CASE action = "create_organization" -> userRole = "super_admin"
           [] action = "manage_users" -> hasAdminPermissions(userRole)
           [] action = "create_courses" -> hasMentorPermissions(userRole)
           [] action = "enroll_courses" -> hasLearnerPermissions(userRole)
           [] action = "view_analytics" -> hasAdminPermissions(userRole)
           [] OTHER -> FALSE

\* jwt-utils.ts validateOrganizationAccess
validateOrganizationAccess(userOrganizationId, requestedOrganizationId, userRole) ==
    IF userRole = "super_admin" THEN TRUE
    ELSE userOrganizationId = requestedOrganizationId

\* auth-middleware.ts validateOrganizationAccess; context is NoContext or a context record
NoContext == [none |-> TRUE]

mwValidateOrganizationAccess(context, targetOrganizationId) ==
    IF context = NoContext THEN FALSE
    ELSE IF context.role = "super_admin" THEN TRUE
    ELSE context.organizationId = targetOrganizationId

(* Tokens.  token.split('.') is the sequence of the token's parts; a part  *)
(* either is the base64 of the JSON of a payload object, the base64 of the *)
(* JSON value null, or something atob / JSON.parse throws on.              *)

JwtPayloads ==
    [sub : {UserU, Undefined}, organization_id : {OrgA, Undefined, <<>>},
     role : {"super_admin", "learner"}, exp : {0, 1}]

Garbage == [kind |-> "garbage"]
JsonNull == [kind |-> "null"]
Encoded(payload) == [kind |-> "object", payload |-> payload]

\* the header and the signature of a token
JwtHeader == Garbage
JwtSignature == Garbage

\* jwt-utils.ts createOrganizationJWT: `${header}.${payloadEncoded}.${signature}`
createOrganizationJWT(payload) == <<JwtHeader, Encoded(payload), JwtSignature>>

Tokens ==
    {createOrganizationJWT(pl) : pl \in JwtPayloads}
        \cup {<<JwtHeader, Encoded(pl)>> : pl \in JwtPayloads}
        \cup {<<JwtHeader, Encoded(pl), JwtSignature, JwtSignature>> : pl \in JwtPayloads}
        \cup {<<Garbage>>, <<JwtHeader, Garbage, JwtSignature>>, <<JwtHeader, JsonNull, JwtSignature>>}

Failed(msg) == [ok |-> FALSE, error |-> msg]
Resolved(pl) ==
    [ok |-> TRUE,
     context |-> [userId |-> pl.sub, organizationId |-> pl.organization_id, role |-> pl.role]]

NowSeconds == now \div 1000

\* validateOrganizationJWT without the expiry check
validateOrganizationJWT_NoExpiry(token) ==
    IF Len(token) # 3 THEN Failed("Invalid token: Invalid token format")
    ELSE IF token[2].kind # "object" THEN Failed("Invalid token: decode")
    ELSE IF (~Truthy(token[2].payload.sub)) \/ ~Truthy(token[2].payload.organization_id)
         THEN Failed("Invalid token: Invalid token payload")
    ELSE Resolved(token[2].payload)

\* jwt-utils.ts validateOrganizationJWT
validateOrganizationJWT(token) ==
    IF Len(token) # 3 THEN Failed("Invalid token: Invalid token format")
    ELSE IF token[2].kind # "object" THEN Failed("Invalid token: decode")
    ELSE IF token[2].payload.exp < NowSeconds THEN Failed("Invalid token: Token expired")
    ELSE IF (~Truthy(token[2].payload.sub)) \/ ~Truthy(token[2].payload.organization_id)
         THEN Failed("Invalid token: Invalid token payload")
    ELSE Resolved(token[2].payload)

\* auth.ts validateJWT: the payload is token.split('.')[1], whatever the number of parts
validateJWT(token) ==
    IF Len(token) < 2 THEN Failed("Invalid token")
    ELSE IF token[2].kind # "object" THEN Failed("Invalid token")
    ELSE IF token[2].payload.exp < NowSeconds THEN Failed("Invalid token")
    ELSE Resolved(token[2].payload)

\* the authorization header of a request: absent, or a scheme followed by a token
AuthHeaders ==
    {[scheme |-> "none"]} \cup [scheme : {"Bearer ", "Basic "}, token : Tokens]

\* jwt-utils.ts getOrganizationContextFromRequest: what the caller gets
getOrganizationContextFromRequest(authHeader) ==
    IF authHeader.scheme # "Bearer " THEN [returned |-> TRUE, context |-> NoContext]
    ELSE LET r == validateOrganizationJWT(authHeader.token)
         IN  IF r.ok THEN [returned |-> TRUE, context |-> r.context]
             ELSE [returned |-> TRUE, context |-> NoContext]

AuthStep == UNCHANGED <<now, cacheVars, rateVars, apiVars, dbVars, auditVars, emailVars, storeVars, migrationVars>>

CanPerformAction ==
    \E r \in Roles, t \in AuthOrgs, u \in AuthOrgs, a \in AuthActions :
        /\ az' = [op |-> "canPerformAction", role |-> r, target |-> t, userOrg |-> u,
                  action |-> a, result |-> canPerformAction(r, t, u, a)]
        /\ AuthStep

ValidateOrganizationAccess ==
    \E r \in Roles, t \in AuthOrgs, u \in AuthOrgs :
        /\ az' = [op |-> "validateOrganizationAccess", role |-> r, target |-> t, userOrg |-> u,
                  result |-> validateOrganizationAccess(u, t, r)]
        /\ AuthStep

MwValidateOrganizationAccess ==
    \E r \in Roles, t \in AuthOrgs, u \in AuthOrgs :
        /\ az' = [op |-> "mwValidateOrganizationAccess", role |-> r, target |-> t, userOrg |-> u,
                  result |-> mwValidateOrganizationAccess(
                                 [organizationId |-> u, userId |-> UserU, role |-> r], t)]
        /\ AuthStep

MwValidateOrganizationAccessNoContext ==
    \E t \in AuthOrgs :
        /\ az' = [op |-> "mwValidateOrganizationAccessNoContext", target |-> t,
                  result |-> mwValidateOrganizationAccess(NoContext, t)]
        /\ AuthStep

ValidateOrganizationJWT ==
    \E tok \in Tokens :
        /\ az' = [op |-> "validateOrganizationJWT", token |-> tok, at |-> NowSeconds,
                  result |-> validateOrganizationJWT(tok)]
        /\ AuthStep

ValidateJWT ==
    \E tok \in Tokens :
        /\ az' = [op |-> "validateJWT", token |-> tok, at |-> NowSeconds,
                  result |-> validateJWT(tok)]
        /\ AuthStep

GetOrganizationContextFromRequest ==
    \E h \in AuthHeaders :
        /\ az' = [op |-> "getOrganizationContextFromRequest", header |-> h, at |-> NowSeconds,
                  result |-> getOrganizationContextFromRequest(h)]
        /\ AuthStep

InitAuth ==
    /\ now = 0
    /\ cacheImpl = "memory"
    /\ memoryCache = <<>>
    /\ cacheTable = {}
    /\ cacheRes = NoCall
    /\ cacheOps = 0
    /\ rateStore = <<>>
    /\ rl = <<>>
    /\ az = NoCall
    /\ ApiIdle
    /\ DbIdle
    /\ AuditIdle
    /\ EmailIdle
    /\ StoreIdle
    /\ MigrationIdle

NextAuth ==
    \/ CanPerformAction
    \/ ValidateOrganizationAccess
    \/ MwValidateOrganizationAccess
    \/ MwValidateOrganizationAccessNoContext
    \/ ValidateOrganizationJWT
    \/ ValidateJWT
    \/ GetOrganizationContextFromRequest
    \/ Tick

SpecAuth == InitAuth /\ [][NextAuth]_vars

----------------------------------------------------------------------------
(* API requests: auth-middleware.ts authMiddleware, api-utils.ts wrappers, *)
(* part_009 ErrorHandler.handleApiError, audit-logger.ts                   *)

\* an absent header, and absent role metadata
NoRole == ""

\* what supabase.auth.getUser() gives for the request's session cookie
Sessions ==
    {[kind |-> "none"], [kind |-> "throws"]}
        \cup [kind : {"user"}, id : {UserU}, organization_id : {OrgA, Undefined},
              role : {"org_admin", "learner", "super_admin", NoRole}]

\* the x-organization-id, x-user-id and x-user-role headers the client sends
ClientHeaders ==
    {[xorg |-> Undefined, xuser |-> Undefined, xrole |-> NoRole],
     [xorg |-> OrgAT, xuser |-> <<"v">>, xrole |-> "super_admin"],
     [xorg |-> OrgA, xuser |-> UserU, xrole |-> "learner"]}

\* request paths: /api/organizations/{id}/..., /api/courses, /dashboard,
\* /admin, /mentor, /auth/login and any other page
ApiPaths ==
    [root : {"api"}, resource : {"organizations"}, target : {OrgA, OrgAT}]
        \cup {[root |-> "api", resource |-> "courses", target |-> Undefined],
              [root |-> "api", resource |-> "organizations", target |-> Undefined]}
PagePaths ==
    {[root |-> r, resource |-> "", target |-> Undefined] :
        r \in {"dashboard", "admin", "mentor", "auth/login", "courses"}}
Paths == ApiPaths \cup PagePaths

Wrappers == {"withApiHandler", "withOrganizationHandler", "withAdminHandler",
             "withSuperAdminHandler"}

Redirect(to) == [kind |-> "redirect", to |-> to]
Next(headers) == [kind |-> "next", headers |-> headers]

Protected(path) == path.root = "dashboard" \/ path.root = "api"

\* authMiddleware that continues without putting the verified context into the request headers
authMiddleware_NoHeaderRewrite(session, headers, path) ==
    IF session.kind # "user"
    THEN IF Protected(path) THEN Redirect("/auth/login") ELSE Next(headers)
    ELSE Next(headers)

\* auth-middleware.ts authMiddleware
authMiddleware(session, headers, path) ==
    IF session.kind # "user"
    THEN IF Protected(path) THEN Redirect("/auth/login") ELSE Next(headers)
    ELSE LET organizationId == session.organization_id
             role == IF session.role # NoRole THEN session.role ELSE "learner"
         IN  IF ~Truthy(organizationId) THEN Redirect("/unauthorized")
             ELSE IF path.root = "admin" /\ role # "super_admin" /\ role # "org_admin"
                  THEN Redirect("/unauthorized")
             ELSE IF path.root = "mentor" /\ role \notin {"mentor", "org_admin", "super_admin"}
                  THEN Redirect("/unauthorized")
             ELSE IF path.root = "auth/login" THEN Redirect("/dashboard")
             ELSE Next([xorg |-> organizationId, xuser |-> session.id, xrole |-> role])

\* auth-middleware.ts getOrganizationContext
getOrganizationContext(headers) ==
    IF (~Truthy(headers.xorg)) \/ (~Truthy(headers.xuser)) \/ headers.xrole = NoRole
    THEN NoContext
    ELSE [organizationId |-> headers.xorg, userId |-> headers.xuser, role |-> headers.xrole]

\* api-utils.ts extractOrganizationContext
extractOrganizationContext(headers) == getOrganizationContext(headers)

\* errors thrown inside a wrapper
NoError == [thrown |-> FALSE]
AppError(message, statusCode, code) ==
    [thrown |-> TRUE, isAppError |-> TRUE, message |-> message, statusCode |-> statusCode,
     code |-> code, organizationId |-> Undefined, userId |-> Undefined]
PlainError(message) == [thrown |-> TRUE, isAppError |-> FALSE, message |-> message]

\* api-utils.ts validateOrganizationAccess(req, targetOrganizationId): what it throws
apiValidateOrganizationAccess(headers, targetOrganizationId) ==
    LET context == extractOrganizationContext(headers)
    IN  IF context = NoContext THEN AppError("Authentication required", 401, "AUTHENTICATION_ERROR")
        ELSE IF context.role = "super_admin" THEN NoError
        ELSE IF context.organizationId # targetOrganizationId
             THEN AppError("Access denied", 403, "AUTHORIZATION_ERROR")
        ELSE NoError

\* the check a wrapper makes before it calls the protected handler: what it throws
WrapperCheck(wrapper, headers, context, path) ==
    CASE wrapper = "withOrganizationHandler" ->
            IF path.resource # "organizations" \/ ~Truthy(path.target)
            THEN AppError("Organization ID required", 400, "VALIDATION_ERROR")
            ELSE apiValidateOrganizationAccess(headers, path.target)
      [] wrapper = "withAdminHandler" ->
            IF context.role \notin {"super_admin", "org_admin"}
            THEN AppError("Admin privileges required", 403, "AUTHORIZATION_ERROR")
            ELSE NoError
      [] wrapper = "withSuperAdminHandler" ->
            IF context.role # "super_admin"
            THEN AppError("Super admin privileges required", 403, "AUTHORIZATION_ERROR")
            ELSE NoError
      [] OTHER -> NoError

\* ErrorHandler.createError
createError(error, context) ==
    IF error.isAppError THEN error
    ELSE [thrown |-> TRUE, isAppError |-> TRUE, message |-> error.message, statusCode |-> 500,
          code |-> "INTERNAL_SERVER_ERROR", organizationId |-> context.organizationId,
          userId |-> context.userId]

\* auditLog.logSecurityEvent: the row it asks AuditLogger.log to insert
logSecurityEvent(userId, organizationId, event, details) ==
    [user_id |-> userId, organization_id |-> organizationId, action |-> <<"security", event>>,
     details |-> details, outcome |-> "success"]

\* ErrorHandler.handleApiError: the audit rows it issues and the response it returns
handleApiError(error, context) ==
    LET appError == createError(error, context)
    IN  [audits |-> IF Truthy(appError.organizationId) /\ Truthy(appError.userId)
                    THEN {logSecurityEvent(appError.userId, appError.organizationId, "api_error",
                                           [errorCode |-> appError.code,
                                            statusCode |-> appError.statusCode])}
                    ELSE {},
         response |-> [status |-> appError.statusCode, code |-> appError.code,
                       message |-> appError.message]]

(* withApiHandler declares `const context` inside its try block and reads  *)
(* `context` in its catch block.  With block scoping kept by the build the *)
(* read throws a ReferenceError and the wrapper rejects; with the const    *)
(* compiled to a function-scoped var the catch block sees the context.     *)
Builds == {"block-scoped", "function-scoped"}

Unhandled == [status |-> 500, code |-> "UNHANDLED_REJECTION", message |-> "ReferenceError"]

\* a wrapper that calls the protected handler before it makes its check
withApiHandler_HandlerFirst(wrapper, headers, path, handlerThrows, build) ==
    LET context == extractOrganizationContext(headers)
        thrown == IF context = NoContext THEN NoError
                  ELSE LET e == WrapperCheck(wrapper, headers, context, path)
                       IN  IF e.thrown THEN e
                           ELSE IF handlerThrows THEN PlainError("handler failed")
                           ELSE NoError
        invoked == context # NoContext
    IN  IF context = NoContext
        THEN [handed |-> NoContext, invoked |-> FALSE, audits |-> {},
              response |-> [status |-> 401, code |-> "AUTHENTICATION_ERROR",
                            message |-> "Authentication required"]]
        ELSE IF ~thrown.thrown
        THEN [handed |-> context, invoked |-> TRUE, audits |-> {},
              response |-> [status |-> 200, code |-> "OK", message |-> ""]]
        ELSE IF build = "block-scoped"
        THEN [handed |-> context, invoked |-> invoked, audits |-> {}, response |-> Unhandled]
        ELSE LET r == handleApiError(thrown, context)
             IN  [handed |-> context, invoked |-> invoked, audits |-> r.audits,
                  response |-> r.response]

\* api-utils.ts withApiHandler around one of the wrappers
withApiHandler(wrapper, headers, path, handlerThrows, build) ==
    LET context == extractOrganizationContext(headers)
        thrown == IF context = NoContext THEN NoError
                  ELSE LET e == WrapperCheck(wrapper, headers, context, path)
                       IN  IF e.thrown THEN e
                           ELSE IF handlerThrows THEN PlainError("handler failed")
                           ELSE NoError
        invoked == context # NoContext /\ ~WrapperCheck(wrapper, headers, context, path).thrown
    IN  IF context = NoContext
        THEN [handed |-> NoContext, invoked |-> FALSE, audits |-> {},
              response |-> [status |-> 401, code |-> "AUTHENTICATION_ERROR",
                            message |-> "Authentication required"]]
        ELSE IF ~thrown.thrown
        THEN [handed |-> context, invoked |-> TRUE, audits |-> {},
              response |-> [status |-> 200, code |-> "OK", message |-> ""]]
        ELSE IF build = "block-scoped"
        THEN [handed |-> context, invoked |-> invoked, audits |-> {}, response |-> Unhandled]
        ELSE LET r == handleApiError(thrown, context)
             IN  [handed |-> context, invoked |-> invoked, audits |-> r.audits,
                  response |-> r.response]

ApiStep == UNCHANGED <<now, cacheVars, rateVars, authVars, dbVars, auditVars, emailVars, storeVars, migrationVars>>

\* a request arrives
ApiRequest ==
    \E session \in Sessions, headers \in ClientHeaders, path \in Paths, wrapper \in Wrappers :
        /\ apiReq.pc \in {"idle", "responded"}
        /\ apiCount < MaxApiRequests
        /\ path \in PagePaths => wrapper = "withApiHandler"
        /\ apiCount' = apiCount + 1
        /\ apiReq' = [pc |-> "middleware", id |-> apiCount + 1, session |-> session,
                      clientHeaders |-> headers, path |-> path, wrapper |-> wrapper]
        /\ UNCHANGED <<auditPending, auditLogs>>
        /\ ApiStep

\* the middleware runs: it redirects, or passes the request on
AuthMiddleware ==
    /\ apiReq.pc = "middleware"
    /\ LET r == authMiddleware(apiReq.session, apiReq.clientHeaders, apiReq.path)
       IN  apiReq' =
              IF r.kind = "redirect"
              THEN [apiReq EXCEPT !.pc = "responded"] @@
                   [handed |-> NoContext, invoked |-> FALSE,
                    response |-> [status |-> 307, code |-> "REDIRECT", message |-> r.to]]
              ELSE IF apiReq.path.root # "api"
              THEN [apiReq EXCEPT !.pc = "responded"] @@
                   [handed |-> NoContext, invoked |-> FALSE,
                    response |-> [status |-> 200, code |-> "PAGE", message |-> ""]]
              ELSE [apiReq EXCEPT !.pc = "handler"] @@ [headers |-> r.headers]
    /\ UNCHANGED <<apiCount, auditPending, auditLogs>>
    /\ ApiStep

\* the route's wrapped handler runs and the response is returned
ApiHandler ==
    \E handlerThrows \in BOOLEAN, build \in Builds :
        /\ apiReq.pc = "handler"
        /\ LET r == withApiHandler(apiReq.wrapper, apiReq.headers, apiReq.path,
                                   handlerThrows, build)
           IN  /\ apiReq' = [apiReq EXCEPT !.pc = "responded"] @@
                            [handed |-> r.handed, invoked |-> r.invoked, response |-> r.response]
               /\ auditPending' = auditPending \cup
                                    {a @@ [request |-> apiReq.id] : a \in r.audits}
        /\ UNCHANGED <<apiCount, auditLogs>>
        /\ ApiStep

\* AuditLogger.log: the store executes an insert
AuditInsert ==
    \E a \in auditPending :
        /\ auditPending' = auditPending \ {a}
        /\ auditLogs' = auditLogs \cup {a @@ [timestamp |-> now]}
        /\ UNCHANGED <<apiReq, apiCount>>
        /\ ApiStep

\* AuditLogger.log: the insert fails; the failure is logged to the console
AuditInsertError ==
    \E a \in auditPending :
        /\ auditPending' = auditPending \ {a}
        /\ UNCHANGED <<apiReq, apiCount, auditLogs>>
        /\ ApiStep

InitApi ==
    /\ now = 0
    /\ cacheImpl = "memory"
    /\ memoryCache = <<>>
    /\ cacheTable = {}
    /\ cacheRes = NoCall
    /\ cacheOps = 0
    /\ rateStore = <<>>
    /\ rl = <<>>
    /\ az = NoCall
    /\ ApiIdle
    /\ DbIdle
    /\ AuditIdle
    /\ EmailIdle
    /\ StoreIdle
    /\ MigrationIdle

NextApi ==
    \/ ApiRequest
    \/ AuthMiddleware
    \/ ApiHandler
    \/ AuditInsert
    \/ AuditInsertError
    \/ Tick

SpecApi == InitApi /\ [][NextApi]_vars

----------------------------------------------------------------------------
(* Requests for an organization's resources: api-utils.ts                  *)
(* withOrganizationHandler and auth.ts withOrganizationAccess, over stores *)
(* that differ in the organizations that exist.                            *)

\* the organizations table: which of the organizations exist
Worlds == SUBSET {OrgA, OrgAT}

\* the headers the middleware has put on a request, or none
ContextHeaders ==
    {[xorg |-> Undefined, xuser |-> Undefined, xrole |-> NoRole]}
        \cup [xorg : {OrgA, OrgAT}, xuser : {UserU}, xrole : Roles]

\* the users row getCurrentUser resolves the session to, or null
NoUser == [kind |-> "none"]
CurrentUsers ==
    {NoUser} \cup [kind : {"user"}, organization_id : {OrgA, OrgAT}, role : Roles]

\* the organization_id query parameter of the request url, or null
SearchParams == {Null, OrgA, OrgAT}

\* a protected handler of an organization route: it answers from the rows of
\* the target organization, and with 404 when there is no such organization
ProtectedHandler(path, organizations) ==
    IF path.target \in organizations
    THEN [status |-> 200, code |-> "OK", message |-> ""]
    ELSE [status |-> 404, code |-> "NOT_FOUND", message |-> "Organization not found"]

\* a wrapper that runs the protected handler before the access check and
\* returns its 404
withOrganizationHandler_HandlerFirst(headers, path, organizations, build) ==
    LET r == withApiHandler("withOrganizationHandler", headers, path, FALSE, build)
        h == ProtectedHandler(path, organizations)
    IN  IF extractOrganizationContext(headers) # NoContext /\ h.status = 404
        THEN [r EXCEPT !.response = h, !.invoked = TRUE]
        ELSE IF r.invoked THEN [r EXCEPT !.response = h] ELSE r

\* api-utils.ts withOrganizationHandler: the target is the path segment after
\* 'organizations'; validateOrganizationAccess, then the handler
withOrganizationHandler(headers, path, organizations, build) ==
    LET r == withApiHandler("withOrganizationHandler", headers, path, FALSE, build)
    IN  IF r.invoked
        THEN [r EXCEPT !.response = ProtectedHandler(path, organizations)]
        ELSE r

\* auth.ts canAccessOrganization
canAccessOrganization(user, organizationId) ==
    IF user = NoUser THEN FALSE
    ELSE IF user.role = "super_admin" THEN TRUE
    ELSE user.organization_id = organizationId

\* url.pathname.split('/')[2] of /api/<resource>/<target>: the resource segment
PathSegment2(path) == <<path.resource>>

\* auth.ts withOrganizationAccess: organizationId is the organization_id
\* query parameter, or else the third part of the split pathname
withOrganizationAccess(user, param, path, organizations) ==
    LET organizationId == IF param # Null THEN param ELSE PathSegment2(path)
    IN  IF user = NoUser
        THEN [invoked |-> FALSE,
              response |-> [status |-> 401, code |-> "", message |-> "Unauthorized"]]
        ELSE IF Truthy(organizationId) /\ ~canAccessOrganization(user, organizationId)
        THEN [invoked |-> FALSE,
              response |-> [status |-> 403, code |-> "", message |-> "Forbidden"]]
        ELSE [invoked |-> TRUE, response |-> ProtectedHandler(path, organizations)]

WithOrganizationHandler ==
    \E h \in ContextHeaders, p \in ApiPaths, w \in Worlds, b \in Builds :
        /\ az' = [op |-> "withOrganizationHandler", headers |-> h, path |-> p,
                  organizations |-> w, build |-> b,
                  result |-> withOrganizationHandler(h, p, w, b)]
        /\ AuthStep

WithOrganizationAccess ==
    \E u \in CurrentUsers, q \in SearchParams, p \in ApiPaths, w \in Worlds :
        /\ az' = [op |-> "withOrganizationAccess", user |-> u, param |-> q, path |-> p,
                  organizations |-> w,
                  result |-> withOrganizationAccess(u, q, p, w)]
        /\ AuthStep

NextDeny ==
    \/ WithOrganizationHandler
    \/ WithOrganizationAccess

SpecDeny == InitAuth /\ [][NextDeny]_vars

----------------------------------------------------------------------------
(* Email service: EmailService.sendUserInvitation, sendPasswordReset and   *)
(* sendWelcome, each one call of the provider's emails.send.               *)

EmailTemplates == {"invitation", "password-reset", "welcome"}

\* the argument of a send operation: the data of a message, or a value that
\* cannot be destructured
NoData == [kind |-> "null"]
EmailData == {NoData} \cup [kind : {"data"}, to : {<<"x">>, <<"y">>}]
NoMessage == [template |-> "", to |-> <<>>]

\* what the provider's emails.send does: it resolves with { error: null },
\* with { error: {...} }, with an object without error, with undefined, or
\* it rejects
ProviderAnswers ==
    {[kind |-> "resolved", error |-> Null],
     [kind |-> "resolved", error |-> <<"e">>],
     [kind |-> "resolved", error |-> Undefined],
     [kind |-> "resolved-undefined", error |-> Undefined],
     [kind |-> "rejected", error |-> <<"e">>]}

\* a send operation without its try / catch
SendEmail_NoCatch(template, data, answer) ==
    LET called == data # NoData
        completed == called /\ answer.kind = "resolved"
    IN  [called |-> called,
         message |-> IF called THEN [template |-> template, to |-> data.to] ELSE NoMessage,
         answer |-> answer,
         threw |-> ~completed,
         returned |-> completed /\ answer.error = Null]

\* the body the three send operations share: destructure data, build the
\* message, await resend.emails.send(...), return result.error === null;
\* catch (error) { console.error(...); return false }
SendEmail(template, data, answer) ==
    LET called == data # NoData
        completed == called /\ answer.kind = "resolved"
    IN  [called |-> called,
         message |-> IF called THEN [template |-> template, to |-> data.to] ELSE NoMessage,
         answer |-> answer,
         threw |-> FALSE,
         returned |-> completed /\ answer.error = Null]

sendUserInvitation(data, answer) == SendEmail("invitation", data, answer)
sendPasswordReset(data, answer) == SendEmail("password-reset", data, answer)
sendWelcome(data, answer) == SendEmail("welcome", data, answer)

\* the provider has the message when it resolved without an error
Accepted(r) == r.called /\ r.answer.kind = "resolved" /\ r.answer.error = Null

EmailStep ==
    /\ Len(outbox) < MaxEmails
    /\ UNCHANGED <<now, cacheVars, rateVars, authVars, apiVars, dbVars, auditVars, storeVars, migrationVars>>

SendUserInvitation ==
    \E d \in EmailData, a \in ProviderAnswers :
        LET r == sendUserInvitation(d, a)
        IN  /\ emailCall' = [op |-> "sendUserInvitation"] @@ r
            /\ outbox' = IF Accepted(r) THEN Append(outbox, r.message) ELSE outbox
            /\ EmailStep
SendPasswordReset ==
    \E d \in EmailData, a \in ProviderAnswers :
        LET r == sendPasswordReset(d, a)
        IN  /\ emailCall' = [op |-> "sendPasswordReset"] @@ r
            /\ outbox' = IF Accepted(r) THEN Append(outbox, r.message) ELSE outbox
            /\ EmailStep
SendWelcome ==
    \E d \in EmailData, a \in ProviderAnswers :
        LET r == sendWelcome(d, a)
        IN  /\ emailCall' = [op |-> "sendWelcome"] @@ r
            /\ outbox' = IF Accepted(r) THEN Append(outbox, r.message) ELSE outbox
            /\ EmailStep

NextEmail ==
    \/ SendUserInvitation
    \/ SendPasswordReset
    \/ SendWelcome

SpecEmail == InitAuth /\ [][NextEmail]_vars

----------------------------------------------------------------------------
(* Read-through reads and resource mutations, lib/db-utils.ts.  The calls   *)
(* are asynchronous: each await is a point where other calls may run.      *)

Readers == 1..MaxReaders

\* the cached resource: one user's enrollments in one organization
DbOrg == OrgA
DbType == <<"t">>
DbUser == <<"i">>

IdleRead == [pc |-> "idle"]

\* outcomes of a call to the store client: it resolves with data, resolves
\* with an error object, or rejects
StoreOutcomes == {"ok", "error", "throw"}

\* the fetcher passed to getCachedData reads the authoritative rows
fetcher == [owner |-> DbOrg, v |-> resource]

\* the read-through wrappers: DatabaseUtils.getCachedData, and withCache of
\* the store-backed cache module
ReadThroughs == {"getCachedData", "withCache"}

\* a read-through is called with the ttl in the unit it expects; committed is
\* the number of mutations that had returned by then
RdCall(p, via, seconds) ==
    /\ rd[p].pc = "idle"
    /\ \A q \in 1..(p - 1) : rd[q].pc # "idle"
    /\ rd' = [rd EXCEPT ![p] =
                [pc |-> "select", via |-> via,
                 cacheKey |-> IF via = "withCache"
                              THEN orgCacheCreateCacheKey(DbOrg, DbType, DbUser)
                              ELSE createCacheKey(DbOrg, DbType, DbUser),
                 ttl |-> IF via = "withCache" THEN seconds ELSE seconds * 1000,
                 fetches |-> 0, fault |-> FALSE, caught |-> FALSE,
                 committed |-> mut.committed,
                 data |-> Undefined, result |-> Undefined, threw |-> FALSE]]
    /\ UNCHANGED <<cacheTable, cacheRes>>

\* the catch block that rethrows instead of falling back to the fetcher
RdCatch_Rethrow(p) ==
    [rd[p] EXCEPT !.pc = "done", !.fault = TRUE, !.threw = TRUE]

\* getCachedData: catch (error) { return await fetcher() }
RdCatch(p) ==
    [rd[p] EXCEPT !.pc = "fetch", !.fault = TRUE, !.caught = TRUE]

\* getCachedData: await supabase.from('cache').select(...).eq(...).eq(...).single()
\* withCache: await getCacheItem(...), where OrganizationCache.get turns an
\* error and a rejection into null
RdSelect(p, outcome) ==
    LET rows == RowsOf(DbOrg, rd[p].cacheKey)
        cachedData == CHOOSE r \in rows : TRUE
    IN  /\ rd[p].pc = "select"
        /\ rd' = [rd EXCEPT ![p] =
                    IF outcome = "throw" /\ rd[p].via = "getCachedData" THEN RdCatch(p)
                    ELSE IF outcome # "ok" THEN [rd[p] EXCEPT !.pc = "fetch", !.fault = TRUE]
                    ELSE IF rows # {} /\ cachedData.expires_at > now
                    THEN [rd[p] EXCEPT !.pc = "done", !.result = cachedData.data]
                    ELSE [rd[p] EXCEPT !.pc = "fetch"]]
        /\ UNCHANGED <<cacheTable, cacheRes>>

\* await fetcher() in the try block or in the catch block of getCachedData;
\* await handler() in withCache
RdFetch(p) ==
    /\ rd[p].pc = "fetch"
    /\ rd' = [rd EXCEPT ![p] =
                IF rd[p].caught
                THEN [rd[p] EXCEPT !.pc = "done", !.result = fetcher, !.data = fetcher,
                                   !.fetches = rd[p].fetches + 1]
                ELSE [rd[p] EXCEPT !.pc = "upsert", !.data = fetcher,
                                   !.fetches = rd[p].fetches + 1]]
    /\ UNCHANGED <<cacheTable, cacheRes>>

\* getCachedData: await supabase.from('cache').upsert(...); return data
\* withCache: await setCacheItem(...); return result, where
\* OrganizationCache.set turns an error and a rejection into false
RdUpsert(p, outcome) ==
    LET expiresAt == IF rd[p].via = "withCache"
                     THEN now + rd[p].ttl * 1000
                     ELSE now + rd[p].ttl
    IN  /\ rd[p].pc = "upsert"
        /\ cacheTable' =
              IF outcome = "ok"
              THEN Upsert([organization_id |-> DbOrg, cache_key |-> rd[p].cacheKey,
                           data |-> rd[p].data, expires_at |-> expiresAt])
              ELSE cacheTable
        /\ rd' = [rd EXCEPT ![p] =
                    IF outcome = "throw" /\ rd[p].via = "getCachedData" THEN RdCatch(p)
                    ELSE IF outcome # "ok"
                    THEN [rd[p] EXCEPT !.pc = "done", !.result = rd[p].data, !.fault = TRUE]
                    ELSE [rd[p] EXCEPT !.pc = "done", !.result = rd[p].data]]
        /\ UNCHANGED cacheRes

\* updateCourseProgress: the update of course_enrollments
MutUpdate(outcome) ==
    /\ mut.pc \in {"idle", "returned", "threw"}
    /\ resource < MaxMutations
    /\ resource' = IF outcome = "ok" THEN resource + 1 ELSE resource
    /\ mut' = IF outcome = "ok"
              THEN [mut EXCEPT !.pc = "written", !.error = ""]
              ELSE [mut EXCEPT !.pc = "threw", !.error = "Error updating progress"]
    /\ UNCHANGED <<cacheTable, cacheRes>>

\* updateCourseProgress: await getOrganizationContext(userId)
MutContext(outcome) ==
    /\ mut.pc = "written"
    /\ mut' = IF outcome = "ok"
              THEN [mut EXCEPT !.pc = "context"]
              ELSE [mut EXCEPT !.pc = "threw",
                               !.error = "User not found or not authenticated"]
    /\ UNCHANGED <<resource, cacheTable, cacheRes>>

\* updateCourseProgress: await this.invalidateCache(...); return enrollment.
\* invalidateCache does not look at the error the delete resolves with.
MutInvalidate(outcome) ==
    /\ mut.pc = "context"
    /\ IF outcome = "ok"
       THEN invalidateCache(DbOrg, DbType, DbUser)
       ELSE UNCHANGED <<cacheTable, cacheRes>>
    /\ mut' = IF outcome = "throw"
              THEN [mut EXCEPT !.pc = "threw", !.error = "rejected"]
              ELSE [mut EXCEPT !.pc = "returned", !.committed = resource,
                               !.fault = @ \/ outcome = "error"]
    /\ UNCHANGED resource

DbStep ==
    UNCHANGED <<now, memoryCache, cacheImpl, cacheOps, rateVars, authVars, apiVars, auditVars, emailVars, storeVars, migrationVars>>

GetCachedDataCall ==
    \E p \in Readers, via \in ReadThroughs, s \in TtlSeconds :
        RdCall(p, via, s) /\ UNCHANGED <<resource, mut>> /\ DbStep
GetCachedDataSelect ==
    \E p \in Readers : RdSelect(p, "ok") /\ UNCHANGED <<resource, mut>> /\ DbStep
GetCachedDataSelectError ==
    \E p \in Readers : RdSelect(p, "error") /\ UNCHANGED <<resource, mut>> /\ DbStep
GetCachedDataSelectThrow ==
    \E p \in Readers : RdSelect(p, "throw") /\ UNCHANGED <<resource, mut>> /\ DbStep
GetCachedDataFetch ==
    \E p \in Readers : RdFetch(p) /\ UNCHANGED <<resource, mut>> /\ DbStep
GetCachedDataUpsert ==
    \E p \in Readers : RdUpsert(p, "ok") /\ UNCHANGED <<resource, mut>> /\ DbStep
GetCachedDataUpsertError ==
    \E p \in Readers : RdUpsert(p, "error") /\ UNCHANGED <<resource, mut>> /\ DbStep
GetCachedDataUpsertThrow ==
    \E p \in Readers : RdUpsert(p, "throw") /\ UNCHANGED <<resource, mut>> /\ DbStep
UpdateCourseProgress == MutUpdate("ok") /\ UNCHANGED rd /\ DbStep
UpdateCourseProgressError == MutUpdate("error") /\ UNCHANGED rd /\ DbStep
UpdateGetContext == MutContext("ok") /\ UNCHANGED rd /\ DbStep
UpdateGetContextError == MutContext("error") /\ UNCHANGED rd /\ DbStep
UpdateInvalidate == MutInvalidate("ok") /\ UNCHANGED rd /\ DbStep
UpdateInvalidateError == MutInvalidate("error") /\ UNCHANGED rd /\ DbStep
UpdateInvalidateThrow == MutInvalidate("throw") /\ UNCHANGED rd /\ DbStep

InitDb ==
    /\ now = 0
    /\ cacheImpl = "table"
    /\ memoryCache = <<>>
    /\ cacheTable = {}
    /\ cacheRes = NoCall
    /\ cacheOps = 0
    /\ rateStore = <<>>
    /\ rl = <<>>
    /\ az = NoCall
    /\ ApiIdle
    /\ resource = 0
    /\ rd = [p \in Readers |-> IdleRead]
    /\ mut = [pc |-> "idle", committed |-> 0, fault |-> FALSE, error |-> ""]
    /\ AuditIdle
    /\ EmailIdle
    /\ StoreIdle
    /\ MigrationIdle

NextDb ==
    \/ GetCachedDataCall
    \/ GetCachedDataSelect
    \/ GetCachedDataSelectError
    \/ GetCachedDataSelectThrow
    \/ GetCachedDataFetch
    \/ GetCachedDataUpsert
    \/ GetCachedDataUpsertError
    \/ GetCachedDataUpsertThrow
    \/ UpdateCourseProgress
    \/ UpdateCourseProgressError
    \/ UpdateGetContext
    \/ UpdateGetContextError
    \/ UpdateInvalidate
    \/ UpdateInvalidateError
    \/ UpdateInvalidateThrow
    \/ Tick

SpecDb == InitDb /\ [][NextDb]_vars

\* The read-through reads on their own, over authoritative rows that do not
\* change while the reads run: each store call of each read may succeed,
\* resolve with an error or reject.
InitRead ==
    /\ now = 0
    /\ cacheImpl = "table"
    /\ memoryCache = <<>>
    /\ cacheTable = {}
    /\ cacheRes = NoCall
    /\ cacheOps = 0
    /\ rateStore = <<>>
    /\ rl = <<>>
    /\ az = NoCall
    /\ ApiIdle
    /\ resource \in 0..MaxMutations
    /\ rd = [p \in Readers |-> IdleRead]
    /\ mut = [pc |-> "idle", committed |-> resource, fault |-> FALSE, error |-> ""]
    /\ AuditIdle
    /\ EmailIdle
    /\ StoreIdle
    /\ MigrationIdle

NextRead ==
    \/ GetCachedDataCall
    \/ GetCachedDataSelect
    \/ GetCachedDataSelectError
    \/ GetCachedDataSelectThrow
    \/ GetCachedDataFetch
    \/ GetCachedDataUpsert
    \/ GetCachedDataUpsertError
    \/ GetCachedDataUpsertThrow
    \/ Tick

SpecRead == InitRead /\ [][NextRead]_vars

----------------------------------------------------------------------------
(* Audit trail: lib/audit-logger.ts, DatabaseUtils.logAuditEvent and the   *)
(* audit_logs table of the schema.                                         *)

UserV == <<"v">>
AuditUsers == {UserU, UserV}

\* the entries callers record: a user of an organization, an action, its outcome
AuditEntries ==
    { [user_id |-> m[1], organization_id |-> m[2], action |-> "a", outcome |-> oc] :
        m \in {<<UserU, OrgA>>, <<UserV, OrgAT>>}, oc \in {"success", "failure"} }

\* retentionDays passed to cleanup
RetentionDays == {0, 1}

\* who makes a call to the audit logger: the signed-in principal of the
\* request being served, or a job of the system.  None of the audit
\* functions takes the caller as a parameter.
SystemContext == [role |-> "system", organizationId |-> Undefined]
AuditCallers ==
    {SystemContext} \cup [role : Roles, organizationId : {OrgA, OrgAT}]

\* the filters a caller passes to queryLogs, getStats and getAuditLogs;
\* limit and offset are left undefined
AuditQueries == [organizationId : {OrgA, OrgAT, Undefined}, userId : {UserU, Undefined}]

\* the row the table makes of an inserted entry: id and timestamp are its defaults
AuditRow(entry) ==
    [id |-> Len(auditCreated) + 1, timestamp |-> now,
     user_id |-> entry.user_id, organization_id |-> entry.organization_id,
     action |-> entry.action, outcome |-> entry.outcome]

\* what the store answers to an insert: user_id REFERENCES users(id), so an
\* insert for a user that does not exist is answered with an error
InsertOutcome(entry, outcome) ==
    IF outcome = "ok" /\ entry.user_id \notin users THEN "error" ELSE outcome

\* the insert into audit_logs
AuditInsertRow(entry, outcome) ==
    IF InsertOutcome(entry, outcome) = "ok"
    THEN /\ auditLogs' = auditLogs \cup {AuditRow(entry)}
         /\ auditCreated' = Append(auditCreated, AuditRow(entry))
    ELSE UNCHANGED <<auditLogs, auditCreated>>

\* AuditLogger.log: true when the insert went through, false on an error or a
\* rejection.  Its body issues the insert once and returns; attempts is the
\* number of inserts the call issued, whatever the outcome of the entry
\* (logFailure passes outcome "failure" to the same log).
AuditLoggerLog(entry, outcome) ==
    /\ AuditInsertRow(entry, outcome)
    /\ auditCall' = [op |-> "log", n |-> auditCall.n + 1, entry |-> entry,
                     outcome |-> InsertOutcome(entry, outcome), attempts |-> 1,
                     returned |-> InsertOutcome(entry, outcome) = "ok", threw |-> FALSE]
    /\ UNCHANGED users

\* DatabaseUtils.logAuditEvent: an error is logged to the console; there is
\* no try / catch around the insert
logAuditEvent(entry, outcome) ==
    /\ AuditInsertRow(entry, outcome)
    /\ auditCall' = [op |-> "logAuditEvent", n |-> auditCall.n + 1,
                     outcome |-> InsertOutcome(entry, outcome),
                     threw |-> InsertOutcome(entry, outcome) = "throw"]
    /\ UNCHANGED users

\* the rows a delete with lte in place of lt would remove
cleanupRemoves_Lte(rows, cutoff) == {r \in rows : r.timestamp <= cutoff}

\* .delete().lt('timestamp', cutoffDate)
cleanupRemoves(rows, cutoff) == {r \in rows : r.timestamp < cutoff}

\* AuditLogger.cleanup: the number of rows deleted, 0 on an error or a rejection
cleanup(caller, retentionDays, outcome) ==
    LET cutoffDate == now - retentionDays * DayMs
        gone == IF outcome = "ok" THEN cleanupRemoves(auditLogs, cutoffDate) ELSE {}
    IN  /\ auditLogs' = auditLogs \ gone
        /\ auditCall' = [op |-> "cleanup", n |-> auditCall.n + 1, outcome |-> outcome,
                         caller |-> caller,
                         cutoff |-> cutoffDate, returned |-> Cardinality(gone),
                         threw |-> FALSE]
        /\ UNCHANGED <<users, auditCreated>>

\* the rows a select on audit_logs returns for the filters put on it:
\* queryLogs and getAuditLogs add .eq('user_id', ...) when userId is truthy
SelectAuditLogs(byOrganization, organizationId, userId) ==
    {r \in auditLogs :
        /\ byOrganization => r.organization_id = organizationId
        /\ Truthy(userId) => r.user_id = userId}

\* AuditLogger.queryLogs: .eq('organization_id', ...) only if
\* query.organizationId is truthy; { logs: [], total: 0 } on an error or a
\* rejection.  predicate tells whether the select carried the organization filter.
queryLogs(caller, query, outcome) ==
    LET predicate == Truthy(query.organizationId)
        logs == IF outcome = "ok"
                THEN SelectAuditLogs(predicate, query.organizationId, query.userId)
                ELSE {}
    IN  /\ auditCall' = [op |-> "queryLogs", n |-> auditCall.n + 1, caller |-> caller,
                         query |-> query, outcome |-> outcome, predicate |-> predicate,
                         logs |-> logs, total |-> Cardinality(logs), threw |-> FALSE]
        /\ UNCHANGED <<users, auditLogs, auditCreated>>

\* AuditLogger.getStats: select('*'), with .eq('organization_id', ...) only if
\* organizationId is truthy; the statistics are counts over the rows returned
getStats(caller, organizationId, outcome) ==
    LET predicate == Truthy(organizationId)
        logs == IF outcome = "ok"
                THEN SelectAuditLogs(predicate, organizationId, Undefined)
                ELSE {}
    IN  /\ auditCall' = [op |-> "getStats", n |-> auditCall.n + 1, caller |-> caller,
                         query |-> [organizationId |-> organizationId, userId |-> Undefined],
                         outcome |-> outcome, predicate |-> predicate,
                         logs |-> logs, total |-> Cardinality(logs), threw |-> FALSE]
        /\ UNCHANGED <<users, auditLogs, auditCreated>>

\* DatabaseUtils.getAuditLogs: .eq('organization_id', organizationId) always;
\* throws on an error
getAuditLogs(caller, organizationId, options, outcome) ==
    LET logs == IF outcome = "ok"
                THEN SelectAuditLogs(TRUE, organizationId, options.userId)
                ELSE {}
    IN  /\ auditCall' = [op |-> "getAuditLogs", n |-> auditCall.n + 1, caller |-> caller,
                         query |-> [organizationId |-> organizationId,
                                    userId |-> options.userId],
                         outcome |-> outcome, predicate |-> TRUE,
                         logs |-> logs, total |-> Cardinality(logs),
                         threw |-> outcome # "ok"]
        /\ UNCHANGED <<users, auditLogs, auditCreated>>

\* a row of users is deleted: user_id ... REFERENCES users(id) ON DELETE SET NULL
deleteUser(u) ==
    /\ u \in users
    /\ users' = users \ {u}
    /\ auditLogs' = {IF r.user_id = u THEN [r EXCEPT !.user_id = Null] ELSE r : r \in auditLogs}
    /\ auditCall' = [op |-> "deleteUser", n |-> auditCall.n + 1]
    /\ UNCHANGED auditCreated

AuditStep ==
    /\ auditCall.n < MaxAuditOps
    /\ UNCHANGED <<now, cacheVars, rateVars, authVars, apiReq, apiCount, auditPending, dbVars,
                   emailVars, storeVars, migrationVars>>

AuditLog == \E e \in AuditEntries : AuditLoggerLog(e, "ok") /\ AuditStep
AuditLogError == \E e \in AuditEntries : AuditLoggerLog(e, "error") /\ AuditStep
AuditLogThrow == \E e \in AuditEntries : AuditLoggerLog(e, "throw") /\ AuditStep
LogAuditEvent == \E e \in AuditEntries : logAuditEvent(e, "ok") /\ AuditStep
LogAuditEventError == \E e \in AuditEntries : logAuditEvent(e, "error") /\ AuditStep
LogAuditEventThrow == \E e \in AuditEntries : logAuditEvent(e, "throw") /\ AuditStep
Cleanup ==
    \E c \in AuditCallers, d \in RetentionDays : cleanup(c, d, "ok") /\ AuditStep
CleanupError ==
    \E c \in AuditCallers, d \in RetentionDays : cleanup(c, d, "error") /\ AuditStep
CleanupThrow ==
    \E c \in AuditCallers, d \in RetentionDays : cleanup(c, d, "throw") /\ AuditStep
DeleteUser == \E u \in AuditUsers : deleteUser(u) /\ AuditStep
QueryLogs ==
    \E c \in AuditCallers, q \in AuditQueries, o \in StoreOutcomes :
        queryLogs(c, q, o) /\ AuditStep
GetStats ==
    \E c \in AuditCallers, q \in AuditQueries, o \in StoreOutcomes :
        getStats(c, q.organizationId, o) /\ AuditStep
GetAuditLogs ==
    \E c \in AuditCallers, q \in AuditQueries, o \in StoreOutcomes :
        getAuditLogs(c, q.organizationId, [userId |-> q.userId], o) /\ AuditStep

InitAudit ==
    /\ now = 0
    /\ cacheImpl = "memory"
    /\ memoryCache = <<>>
    /\ cacheTable = {}
    /\ cacheRes = NoCall
    /\ cacheOps = 0
    /\ rateStore = <<>>
    /\ rl = <<>>
    /\ az = NoCall
    /\ ApiIdle
    /\ DbIdle
    /\ users = AuditUsers
    /\ auditCall = [op |-> "none", n |-> 0]
    /\ auditCreated = <<>>
    /\ EmailIdle
    /\ StoreIdle
    /\ MigrationIdle

NextAudit ==
    \/ AuditLog
    \/ AuditLogError
    \/ AuditLogThrow
    \/ LogAuditEvent
    \/ LogAuditEventError
    \/ LogAuditEventThrow
    \/ Cleanup
    \/ CleanupError
    \/ CleanupThrow
    \/ DeleteUser
    \/ Tick

SpecAudit == InitAudit /\ [][NextAudit]_vars

\* The audit reads, over the records that callers have logged
NextAuditRead ==
    \/ AuditLog
    \/ QueryLogs
    \/ GetStats
    \/ GetAuditLogs

SpecAuditRead == InitAudit /\ [][NextAuditRead]_vars

----------------------------------------------------------------------------
(* Properties of the cache *)

HasDelim(x) == Includes(x, Delim)

\* C1: a cache read made for organization B never returns data that was
\* stored by a call made for another organization A, whatever the resource
\* type and id strings are (colliding keys included).
C1_NoCrossTenantRead ==
    (cacheRes.op = "get" /\ cacheRes.result.hit)
        => cacheRes.result.data.owner = cacheRes.org

\* a read for one organization found, under its key, an item another organization stored
C1_Witness ==
    /\ cacheRes.op = "get"
    /\ cacheRes.impl = "memory"
    /\ cacheRes.key \in DOMAIN memoryCache
    /\ memoryCache[cacheRes.key].data.owner # cacheRes.org
    /\ ~cacheRes.result.hit

\* C10: a resource type or id that contains the ':' delimiter is rejected or
\* escaped before the key is built: no set, get or delete works on the key
\* that is the plain concatenation of such a component.
C10_DelimiterRejectedOrEscaped ==
    (/\ cacheRes.op \in {"set", "get", "delete"}
     /\ (HasDelim(cacheRes.type) \/ HasDelim(cacheRes.id)))
        => cacheRes.key # createOrganizationCacheKey(cacheRes.org, cacheRes.type, cacheRes.id)

\* the entries a store holds for an organization under a key, with their expiry times
StoredIn(mc, ct, org, key) ==
    IF cacheImpl = "memory"
    THEN IF key \in DOMAIN mc /\ mc[key].organizationId = org
         THEN {[data |-> mc[key].data, expiresAt |-> mc[key].timestamp + mc[key].ttl]}
         ELSE {}
    ELSE {[data |-> r.data, expiresAt |-> r.expires_at] :
             r \in {x \in ct : x.organization_id = org /\ x.cache_key = key}}

\* this step is a get of cache-utils.ts or of OrganizationCache
GetStep ==
    /\ cacheOps' = cacheOps + 1
    /\ cacheRes'.op = "get"
    /\ cacheRes'.impl \in {"memory", "table"}

\* C11: a get issued after an entry's expiry time (set time + ttl) returns a
\* miss and removes the entry from the store; a get issued before the expiry
\* time returns the stored value.
C11_ExpiredGetMissesAndRemoves ==
    [][GetStep =>
        \A e \in StoredIn(memoryCache, cacheTable, cacheRes'.org, cacheRes'.key) :
            /\ now > e.expiresAt =>
                  /\ ~cacheRes'.result.hit
                  /\ StoredIn(memoryCache', cacheTable', cacheRes'.org, cacheRes'.key) = {}
            /\ now < e.expiresAt => cacheRes'.result = Hit(e.data)]_vars

\* this step repeats the invalidation that was the last cache call
SecondInvalidate ==
    /\ cacheOps' = cacheOps + 1
    /\ cacheRes'.op = "delete"
    /\ cacheRes'.again

\* C12 as stated: invalidating a key is idempotent: a second deleteCacheItem /
\* OrganizationCache.delete / invalidateCache for the same (orgId, type, id),
\* made right after the first, leaves the store as the first call left it
\* and gives the caller the same result as the first call did.
C12_InvalidateIdempotent ==
    [][SecondInvalidate =>
        /\ memoryCache' = memoryCache
        /\ cacheTable' = cacheTable
        /\ cacheRes'.result = cacheRes.result]_vars

\* C12 as the code has it: the second invalidation leaves the store as the
\* first call left it; OrganizationCache.delete and invalidateCache give the
\* caller the same result both times, while deleteCacheItem returns whether
\* the key was present, which the second call always reports as false.
C12_InvalidateIdempotentStore ==
    [][SecondInvalidate =>
        /\ memoryCache' = memoryCache
        /\ cacheTable' = cacheTable
        /\ cacheRes'.result =
              IF cacheRes'.impl = "memory" THEN FALSE ELSE cacheRes.result]_vars

\* an entry was set and deleteCacheItem was then called twice for it
C12_Witness ==
    /\ cacheRes.op = "delete"
    /\ cacheRes.again
    /\ cacheRes.impl = "memory"
    /\ cacheRes.result = FALSE
    /\ cacheOps = 3
    /\ memoryCache = <<>>
----------------------------------------------------------------------------
(* Properties of the read-through cache *)

ReadsDone == {p \in Readers : rd[p].pc = "done"}
NoStoreFault == ~mut.fault /\ \A p \in Readers : rd[p].pc # "idle" => ~rd[p].fault

\* C13: once a mutating operation has returned, no cache read that is made
\* later returns the value from before the mutation, whatever the
\* interleaving with read-through reads that began before the mutation
\* (store calls all succeeding).
C13_NoStaleReadAfterMutation ==
    NoStoreFault =>
        \A p \in ReadsDone : rd[p].result.v >= rd[p].committed

\* C14: a cache store failure on the read or on the write never fails the
\* read-through request: with a fetcher that succeeds, getCachedData and
\* withCache return normally, and when a cache store call failed they return
\* the value the fetcher gave.
C14_CacheFaultNeverFailsRead ==
    \A p \in ReadsDone :
        /\ ~rd[p].threw
        /\ rd[p].fault => (rd[p].fetches >= 1 /\ rd[p].result = rd[p].data)

\* a getCachedData whose cache write rejected and a withCache whose cache
\* read failed have both returned the fetched value
C14_Witness ==
    \E p, q \in ReadsDone :
        /\ rd[p].via = "getCachedData" /\ rd[p].caught /\ rd[p].fetches > 1
        /\ rd[q].via = "withCache" /\ rd[q].fault
        /\ rd[p].result = fetcher /\ rd[q].result = rd[q].data

----------------------------------------------------------------------------
(* Properties of the rate limiter *)

RateKeys == {defaultKeyGenerator(req) : req \in RateRequests}

Started(k) == {p \in Calls : rl[p].pc # "idle" /\ rl[p].key = k}
Done(k) == {p \in Calls : rl[p].pc = "done" /\ rl[p].key = k}
Allowed(k) == {p \in Done(k) : rl[p].result.allowed}
NoFault(k) == \A p \in Started(k) : ~rl[p].fault

\* C2: when N > L calls of check for one subject key are made concurrently
\* in one window (here: at the same instant) and the store works, exactly L
\* of them are allowed and N - L are denied, whatever the interleaving of
\* their reads and writes.
C2_ExactlyLimitAdmitted ==
    \A k \in RateKeys :
        (/\ Started(k) = Done(k)
         /\ NoFault(k)
         /\ Cardinality(Done(k)) > MaxRequests
         /\ \A p, q \in Done(k) : rl[p].now = rl[q].now)
            => /\ Cardinality(Allowed(k)) = MaxRequests
               /\ Cardinality(Done(k) \ Allowed(k)) = Cardinality(Done(k)) - MaxRequests

\* the calls before p for the same subject, and those counted in p's window
Prior(p) == {q \in 1..(p - 1) : rl[q].pc = "done" /\ rl[q].key = rl[p].key}
SameWindow(p) == {q \in Prior(p) : rl[q].result.info.reset = rl[p].result.info.reset}
WindowFirst(p) == CHOOSE q \in SameWindow(p) \cup {p} : \A r \in SameWindow(p) : q <= r

\* C3: for calls of check made one after the other on one subject, with a
\* working store: a call inside a window is allowed iff fewer than L calls
\* were counted in that window before it; a denied call reports the resetAt
\* of its window (the window's start + W), not earlier than the call; and a
\* call made after the previous call's resetAt has passed is allowed again.
C3_SequentialWindow ==
    \A p \in Calls :
        (rl[p].pc = "done" /\ NoFault(rl[p].key)) =>
            LET res == rl[p].result
                t == rl[p].now
            IN  /\ t < res.info.reset =>
                        (res.allowed <=> Cardinality(SameWindow(p)) < MaxRequests)
                /\ ~res.allowed =>
                        /\ res.info.reset = rl[WindowFirst(p)].now + WindowMs
                        /\ t <= res.info.reset
                /\ \A q \in Prior(p) :
                        (Prior(p) \cap (q + 1)..(p - 1) = {} /\ t > rl[q].result.info.reset)
                            => res.allowed

\* L calls allowed in one window, the next one denied, and a call after the
\* window has elapsed allowed again
C3_Witness ==
    \E p1, p2, p3 \in Calls :
        /\ p1 < p2 /\ p2 < p3
        /\ rl[p1].pc = "done" /\ rl[p2].pc = "done" /\ rl[p3].pc = "done"
        /\ rl[p1].key = rl[p2].key /\ rl[p2].key = rl[p3].key
        /\ NoFault(rl[p1].key)
        /\ Cardinality(SameWindow(p1)) = MaxRequests - 1 /\ rl[p1].result.allowed
        /\ p1 \in SameWindow(p2) /\ ~rl[p2].result.allowed
        /\ rl[p2].now < rl[p2].result.info.reset
        /\ Prior(p3) \cap (p2 + 1)..(p3 - 1) = {}
        /\ rl[p3].now > rl[p2].result.info.reset /\ rl[p3].result.allowed

\* C15: when the counting store is unreachable or answers with an error, on
\* the read or on the update, check returns allowed = true and no 429
\* response (check has no path on which it throws).
C15_FailOpen ==
    \A p \in Calls :
        (rl[p].pc = "done" /\ rl[p].fault)
            => (rl[p].result.allowed /\ rl[p].result.response = NoResponse)

\* the denials of the same subject that came before call p
DenialsBefore(p) ==
    {q \in Prior(p) : ~rl[q].result.allowed /\ rl[p].now < rl[q].result.info.reset}

C17_MetadataExposed ==
    \A p \in Calls :
        rl[p].pc = "done" =>
            /\ rl[p].returned.kind = "response"
            /\ {"limit", "remaining", "reset"} \subseteq DOMAIN rl[p].returned.headers
            /\ rl[p].returned.headers.limit = rl[p].result.info.limit
            /\ rl[p].returned.headers.remaining = rl[p].result.info.remaining
            /\ ~rl[p].result.allowed => "retryAfter" \in DOMAIN rl[p].returned.headers

\* the window identifier of a time: floor(now / windowDuration)
WindowId(t) == t \div WindowMs

\* the calls of p's subject made before p in p's window identifier
SameWindowId(p) == {q \in Prior(p) : WindowId(rl[q].now) = WindowId(rl[p].now)}

\* C28: the window a check is counted in is fixed by floor(now /
\* windowDuration) alone: a check is counted with the earlier checks of its
\* subject that have the same window identifier and with no others, and its
\* resetAt is the end of that window, the next multiple of windowDuration,
\* whenever the subject's first request arrived.
C28_WindowFixedByIdentifier ==
    \A p \in Calls :
        (rl[p].pc = "done" /\ NoFault(rl[p].key)) =>
            /\ rl[p].result.info.reset = (WindowId(rl[p].now) + 1) * WindowMs
            /\ rl[p].result.allowed <=> Cardinality(SameWindowId(p)) < MaxRequests

\* the last call of p's subject made before p
LastPrior(p) == CHOOSE q \in Prior(p) : \A r \in Prior(p) : r <= q

\* C29: a check arriving exactly at a window boundary, at the reset time of
\* the stored window, belongs to the new window: the count restarts from
\* zero and the request is admitted, also when the subject was blocked in
\* the old window.
C29_BoundaryBelongsToNewWindow ==
    \A p \in Calls :
        (/\ rl[p].pc = "done" /\ NoFault(rl[p].key)
         /\ Prior(p) # {}
         /\ rl[p].now = rl[LastPrior(p)].result.info.reset)
            => /\ rl[p].result.allowed
               /\ rl[p].result.info.remaining = MaxRequests - 1

----------------------------------------------------------------------------
(* Properties of the audit trail *)

\* this step is a call of AuditLogger.cleanup
CleanupStep == auditCall'.op = "cleanup" /\ auditCall'.n = auditCall.n + 1

C19_RecordsImmutable ==
    \A r \in auditLogs : r = auditCreated[r.id]

\* C20: AuditLogger.log and DatabaseUtils.logAuditEvent never propagate a
\* storage failure: when the insert answers with an error or rejects, they
\* return normally.
C20_RecordNeverThrows ==
    auditCall.op \in {"log", "logAuditEvent"} => ~auditCall.threw

\* C21: when the first audit write of an authorization-denial event (an entry
\* of outcome "failure") fails, record attempts the write exactly one more
\* time before it gives up.
C21_DenialRetriedOnce ==
    (/\ auditCall.op = "log"
     /\ auditCall.entry.outcome = "failure"
     /\ auditCall.outcome # "ok")
        => auditCall.attempts = 2

\* the records of a set of rows, by id
RecordIds(rows) == {r.id : r \in rows}

\* C22: audit records are deleted only by AuditLogger.cleanup, and cleanup
\* removes records only when it is invoked from a system or SuperAdmin
\* context: invoked by any other principal it deletes nothing.
C22_PurgeOnlyBySystem ==
    [][/\ (RecordIds(auditLogs) \ RecordIds(auditLogs') # {}) => CleanupStep
       /\ (CleanupStep /\ auditCall'.caller.role \notin {"system", "super_admin"})
             => RecordIds(auditLogs') = RecordIds(auditLogs)]_vars

AuditReads == {"queryLogs", "getStats", "getAuditLogs"}

\* C23: the audit query is gated by role: a SuperAdmin may be given the
\* records of any organization, an OrgAdmin is given only records of its own
\* organization, and a Mentor or a Learner is given no record.
C23_QueryGatedByRole ==
    (auditCall.op \in AuditReads /\ auditCall.caller.role \in Roles) =>
        /\ auditCall.caller.role = "org_admin" =>
              \A r \in auditCall.logs : r.organization_id = auditCall.caller.organizationId
        /\ auditCall.caller.role \in {"mentor", "learner"} => auditCall.logs = {}

\* C24: every audit read carries the organization as a predicate: a read
\* filtered by organization X returns only records of X, and no read runs
\* without the predicate or returns records of several organizations.
C24_ReadsScopedToOrganization ==
    auditCall.op \in AuditReads =>
        /\ auditCall.predicate
        /\ \A r \in auditCall.logs : r.organization_id = auditCall.query.organizationId

----------------------------------------------------------------------------
(* Properties of credential resolution and access decisions *)

\* the role hierarchy Learner < Mentor < OrgAdmin < SuperAdmin
RoleRank(role) ==
    CASE role = "learner" -> 1
      [] role = "mentor" -> 2
      [] role = "org_admin" -> 3
      [] role = "super_admin" -> 4

\* the permission matrix: the lowest role each action of canPerformAction admits
MatrixActions == {"create_organization", "manage_users", "create_courses",
                  "enroll_courses", "view_analytics"}
MinRole(action) ==
    CASE action = "create_organization" -> "super_admin"
      [] action = "manage_users" -> "org_admin"
      [] action = "create_courses" -> "mentor"
      [] action = "enroll_courses" -> "learner"
      [] action = "view_analytics" -> "org_admin"

\* C4: canPerformAction allows every SuperAdmin; any other principal is
\* allowed iff its organization is the target organization and its role is
\* at least the minimum role of the action in the permission matrix; an
\* action outside the matrix is denied.
C4_AuthorizeRule ==
    az.op = "canPerformAction" =>
        (az.result <=>
            \/ az.role = "super_admin"
            \/ /\ az.userOrg = az.target
               /\ az.action \in MatrixActions
               /\ RoleRank(az.role) >= RoleRank(MinRole(az.action)))

\* C6: a resolved credential never gives a principal that is not SuperAdmin
\* and has no organizationId.
C6_NoTenantlessPrincipal ==
    (az.op \in {"validateOrganizationJWT", "validateJWT"} /\ az.result.ok)
        => \/ az.result.context.role = "super_admin"
           \/ Truthy(az.result.context.organizationId)

\* a credential is malformed when it has not three dot-separated parts or
\* its payload part does not decode to an object; expired when exp is past
Malformed(token) == Len(token) # 3 \/ token[2].kind # "object"
TokenExpired(token, seconds) == (~Malformed(token)) /\ token[2].payload.exp < seconds

\* C8: resolving a missing, malformed or expired credential fails, no
\* principal comes out of it, and getOrganizationContextFromRequest returns
\* null for it instead of throwing.
C8_BadCredentialFails ==
    /\ (az.op = "validateOrganizationJWT"
            /\ (Malformed(az.token) \/ TokenExpired(az.token, az.at)))
        => ~az.result.ok
    /\ (az.op = "getOrganizationContextFromRequest"
            /\ (\/ az.header.scheme # "Bearer "
                \/ Malformed(az.header.token)
                \/ TokenExpired(az.header.token, az.at)))
        => (az.result.returned /\ az.result.context = NoContext)

\* an expired, well-formed credential was presented in a request
C8_Witness ==
    /\ az.op = "getOrganizationContextFromRequest"
    /\ az.header.scheme = "Bearer "
    /\ TokenExpired(az.header.token, az.at)
    /\ Truthy(az.header.token[2].payload.sub)
    /\ Truthy(az.header.token[2].payload.organization_id)
    /\ az.result.context = NoContext

\* C9: a principal that is not SuperAdmin and whose organizationId is null
\* or absent is denied by every access check, for every action and target.
C9_NullTenantDenied ==
    (/\ az.op \in {"canPerformAction", "validateOrganizationAccess",
                   "mwValidateOrganizationAccess"}
     /\ az.role # "super_admin"
     /\ az.userOrg \in {Undefined, Null})
        => ~az.result

\* C25: the response to a denied request is generic and does not depend on
\* the target tenant's data: the caller whose request for an organization's
\* resource is denied receives the same response whether or not the target
\* organization exists, and the protected handler has not run.
C25_DenialIndependentOfTarget ==
    /\ (az.op = "withOrganizationHandler" /\ ~az.result.invoked) =>
          \A w \in Worlds :
              withOrganizationHandler(az.headers, az.path, w, az.build).response
                  = az.result.response
    /\ (az.op = "withOrganizationAccess" /\ ~az.result.invoked) =>
          \A w \in Worlds :
              withOrganizationAccess(az.user, az.param, az.path, w).response
                  = az.result.response
    /\ (az.op \in {"withOrganizationHandler", "withOrganizationAccess"}
            /\ az.result.response.status = 404) => az.result.invoked

\* a member of one organization was denied another organization's resource,
\* in a store where that organization exists
C25_Witness ==
    /\ az.op = "withOrganizationHandler"
    /\ az.headers.xorg = OrgA /\ az.headers.xrole = "org_admin"
    /\ az.path.target = OrgAT
    /\ OrgAT \in az.organizations
    /\ az.build = "function-scoped"
    /\ az.result.response.status = 403

\* C26: permission is monotone in the role hierarchy: for every action, when
\* a role is allowed to perform it in its own organization, every higher
\* role is allowed too; enroll is allowed for all four roles.
C26_PermissionMonotone ==
    (az.op = "canPerformAction" /\ az.userOrg = az.target /\ az.result) =>
        \A higher \in Roles :
            RoleRank(higher) > RoleRank(az.role)
                => canPerformAction(higher, az.target, az.userOrg, az.action)

----------------------------------------------------------------------------
(* Properties of the email service *)

\* C27: sendUserInvitation, sendPasswordReset and sendWelcome never throw;
\* each returns true iff the provider call completed with error === null,
\* and false whenever the provider call rejected.
C27_SendNeverThrows ==
    emailCall.op # "none" =>
        /\ ~emailCall.threw
        /\ emailCall.returned <=>
              (/\ emailCall.called
               /\ emailCall.answer.kind = "resolved"
               /\ emailCall.answer.error = Null)
        /\ (emailCall.called /\ emailCall.answer.kind = "rejected") => ~emailCall.returned

\* a message was accepted, and the next provider call rejected
C27_Witness ==
    /\ Len(outbox) = 1
    /\ emailCall.op = "sendPasswordReset"
    /\ emailCall.called
    /\ emailCall.answer.kind = "rejected"
    /\ ~emailCall.returned

----------------------------------------------------------------------------
(* Properties of the API wrapper and the audit trail *)

\* the context the verified credential (the session) stands for
SessionContext(session) ==
    [organizationId |-> session.organization_id, userId |-> session.id,
     role |-> IF session.role # NoRole THEN session.role ELSE "learner"]

Responded == apiReq.pc = "responded"

\* C5: when an authorization check has denied a request, an audit record
\* with the caller's organizationId and outcome = failure has been written
\* by the time the error response is returned.
C5_DenyIsAudited ==
    (Responded /\ apiReq.response.code = "AUTHORIZATION_ERROR")
        => \E a \in auditLogs :
              /\ a.request = apiReq.id
              /\ a.organization_id = apiReq.handed.organizationId
              /\ a.outcome = "failure"

CheckPasses(wrapper, context, path) ==
    CASE wrapper = "withOrganizationHandler" ->
            /\ path.resource = "organizations"
            /\ Truthy(path.target)
            /\ (context.role = "super_admin" \/ context.organizationId = path.target)
      [] wrapper = "withAdminHandler" -> context.role \in {"super_admin", "org_admin"}
      [] wrapper = "withSuperAdminHandler" -> context.role = "super_admin"
      [] OTHER -> TRUE

\* C30: within one request the context is resolved, then the access decision
\* is made, then the protected handler runs: the handler wrapped by
\* withApiHandler, withOrganizationHandler, withAdminHandler or
\* withSuperAdminHandler is not invoked when the context is missing or the
\* access check fails, and a handler that ran was handed the resolved
\* context after its wrapper's check had passed.
C30_ContextThenCheckThenHandler ==
    Responded =>
        /\ apiReq.handed = NoContext => ~apiReq.invoked
        /\ apiReq.invoked =>
              /\ apiReq.handed = getOrganizationContext(apiReq.headers)
              /\ CheckPasses(apiReq.wrapper, apiReq.handed, apiReq.path)

\* one handler ran for a learner in its own organization, after another
\* request of that session was refused by the admin wrapper
C30_Witness ==
    /\ Responded
    /\ apiReq.id = 2
    /\ apiReq.wrapper = "withOrganizationHandler"
    /\ apiReq.invoked
    /\ apiReq.handed.role = "learner"
    /\ apiReq.path.target = apiReq.handed.organizationId

----------------------------------------------------------------------------
(* Cache calls under concurrency.  The in-memory cache of cache-utils.ts   *)
(* is synchronous: a call runs to completion.  A call of the store-backed  *)
(* cache reads the clock, sends one statement and awaits it; the store     *)
(* applies the statements of concurrent calls one at a time, in any order. *)
(* cacheJobs keeps every call with the order in which it was applied.      *)

Applied == {p \in 1..Len(cacheJobs) : cacheJobs[p].pc = "done"}
NextOrder == Cardinality(Applied) + 1

\* the subjects of the calls: two organizations whose keys coincide as strings
StoreSubjects == {<<OrgA, <<"t", ":", "t">>>>, <<OrgAT, <<"t">>>>}

\* the memory id and the store id of the modelled subjects
JobId(impl) == IF impl = "memory" THEN Undefined ELSE <<"i">>

Job(impl, op, org, type, data, at, pc, result, removed) ==
    [impl |-> impl, op |-> op, org |-> org, type |-> type,
     key |-> IF op = "cleanup" THEN <<>>
             ELSE IF impl = "memory" THEN createCacheKey(org, type, JobId(impl))
             ELSE orgCacheCreateCacheKey(org, type, JobId(impl)),
     data |-> data, at |-> at, pc |-> pc,
     order |-> IF pc = "done" THEN NextOrder ELSE 0,
     appliedAt |-> IF pc = "done" THEN now ELSE 0,
     result |-> result, removed |-> removed]

Finish(p, result, removed) ==
    [cacheJobs EXCEPT ![p] = [@ EXCEPT !.pc = "done", !.order = NextOrder, !.appliedAt = now,
                                       !.result = result, !.removed = removed]]

StoreStep(impl) ==
    /\ cacheImpl = impl
    /\ UNCHANGED <<now, cacheImpl, cacheOps, rateVars, authVars, apiVars, dbVars, auditVars,
                   emailVars, migrationVars>>

\* setCacheItem
MemorySet ==
    \E s \in StoreSubjects, ttl \in TtlSeconds :
      LET o == s[1]  t == s[2]  v == Len(cacheJobs) + 1 IN
        /\ StoreStep("memory")
        /\ Len(cacheJobs) < MaxJobs
        /\ setCacheItem(o, t, Undefined, [owner |-> o, v |-> v], ttl)
        /\ cacheJobs' = Append(cacheJobs, Job("memory", "set", o, t, [owner |-> o, v |-> v],
                                              now + ttl * 1000, "done", Undefined, {}))
        /\ UNCHANGED cacheTable

\* getCacheItem; it deletes the entry it finds expired
MemoryGet ==
    \E s \in StoreSubjects :
      LET o == s[1]  t == s[2] IN
        /\ StoreStep("memory")
        /\ Len(cacheJobs) < MaxJobs
        /\ getCacheItem(o, t, Undefined)
        /\ cacheJobs' = Append(cacheJobs, Job("memory", "get", o, t, NoData, now, "done",
                                              getCacheItemResult(o, t, Undefined),
                                              {<<k, memoryCache[k]>> :
                                                 k \in (DOMAIN memoryCache) \ (DOMAIN memoryCache')}))
        /\ UNCHANGED cacheTable

\* cache-utils.ts cleanupExpiredItems
MemoryCleanup ==
    /\ StoreStep("memory")
    /\ Len(cacheJobs) < MaxJobs
    /\ cleanupExpiredItems
    /\ cacheJobs' = Append(cacheJobs, Job("memory", "cleanup", <<>>, <<>>, NoData, now, "done",
                                          cacheRes'.result,
                                          {<<k, memoryCache[k]>> :
                                              k \in (DOMAIN memoryCache) \ (DOMAIN memoryCache')}))
    /\ UNCHANGED cacheTable

\* OrganizationCache.set up to its await: expiresAt is computed from the clock of the call
StoreSetSend ==
    \E s \in StoreSubjects, ttl \in TtlSeconds :
      LET o == s[1]  t == s[2]  v == Len(cacheJobs) + 1 IN
        /\ StoreStep("table")
        /\ Len(cacheJobs) < MaxJobs
        /\ cacheJobs' = Append(cacheJobs, Job("table", "set", o, t, [owner |-> o, v |-> v],
                                              now + ttl * 1000, "sent", Undefined, {}))
        /\ UNCHANGED <<memoryCache, cacheTable, cacheRes>>

\* the store applies the upsert and OrganizationCache.set returns true
StoreSetApply ==
    \E p \in 1..Len(cacheJobs) :
        /\ StoreStep("table")
        /\ cacheJobs[p].pc = "sent" /\ cacheJobs[p].op = "set"
        /\ cacheTable' = Upsert([organization_id |-> cacheJobs[p].org,
                                 cache_key |-> cacheJobs[p].key,
                                 data |-> cacheJobs[p].data,
                                 expires_at |-> cacheJobs[p].at])
        /\ cacheJobs' = Finish(p, TRUE, {})
        /\ cacheRes' = CacheCall("table", "set", cacheJobs[p].org, cacheJobs[p].type,
                                 JobId("table"), TRUE)
        /\ UNCHANGED memoryCache

\* OrganizationCache.get; its one select reads the store at the time of the call
StoreGet ==
    \E s \in StoreSubjects :
      LET o == s[1]  t == s[2] IN
        /\ StoreStep("table")
        /\ Len(cacheJobs) < MaxJobs
        /\ OrganizationCacheGet(o, t, JobId("table"))
        /\ cacheJobs' = Append(cacheJobs, Job("table", "get", o, t, NoData, now, "done",
                                              OrganizationCacheGetResult(o, t, JobId("table")), {}))
        /\ UNCHANGED memoryCache

\* part_010 cleanupExpiredItems (and DatabaseUtils.cleanupExpiredCache) up to the await:
\* the cutoff is the clock of the call
StoreCleanupSend ==
    /\ StoreStep("table")
    /\ Len(cacheJobs) < MaxJobs
    /\ cacheJobs' = Append(cacheJobs, Job("table", "cleanup", <<>>, <<>>, NoData, now, "sent",
                                          Undefined, {}))
    /\ UNCHANGED <<memoryCache, cacheTable, cacheRes>>

\* the store applies delete ... where expires_at < cutoff; cleanupExpiredItems returns the
\* number of rows deleted (cleanupExpiredCache, which sends the same statement, returns nothing)
StoreCleanupApply ==
    \E p \in 1..Len(cacheJobs) :
        LET gone == {r \in cacheTable : r.expires_at < cacheJobs[p].at}
            result == Cardinality(gone)
        IN  /\ StoreStep("table")
            /\ cacheJobs[p].pc = "sent" /\ cacheJobs[p].op = "cleanup"
            /\ cacheTable' = cacheTable \ gone
            /\ cacheJobs' = Finish(p, result, gone)
            /\ cacheRes' = [op |-> "cleanup", impl |-> "table", result |-> result]
            /\ UNCHANGED memoryCache

NextStore ==
    \/ MemorySet
    \/ MemoryGet
    \/ MemoryCleanup
    \/ StoreSetSend
    \/ StoreSetApply
    \/ StoreGet
    \/ StoreCleanupSend
    \/ StoreCleanupApply
    \/ Tick

SpecStore == InitCache /\ [][NextStore]_vars

----------------------------------------------------------------------------
(* Properties of concurrent cache calls *)

\* what identifies an entry: the Map key in memory, (organization_id, cache_key) in the store
StoreKeyOf(j) == IF j.impl = "memory" THEN <<j.key>> ELSE <<j.org, j.key>>

AppliedSets(k) ==
    {p \in Applied : cacheJobs[p].op = "set" /\ StoreKeyOf(cacheJobs[p]) = k}

LastOf(S) == CHOOSE p \in S : \A q \in S : cacheJobs[q].order <= cacheJobs[p].order

\* the entries now stored under the key of the set j
EntriesOf(j) ==
    IF j.impl = "memory"
    THEN {<<k, memoryCache[k]>> : k \in {j.key} \cap DOMAIN memoryCache}
    ELSE RowsOf(j.org, j.key)

\* the entry the set j writes
EntryOf(j) ==
    IF j.impl = "memory"
    THEN <<j.key, [data |-> j.data, timestamp |-> j.at - 1000, ttl |-> 1000,
                   organizationId |-> j.org]>>
    ELSE [organization_id |-> j.org, cache_key |-> j.key, data |-> j.data, expires_at |-> j.at]

\* a call applied after the set j removed the entry j wrote
RemovedAfter(j) ==
    \E c \in Applied : cacheJobs[c].order > j.order /\ EntryOf(j) \in cacheJobs[c].removed

ExpiredAt(impl, e, t) ==
    IF impl = "memory" THEN Expired(e[2], t) ELSE ~(e.expires_at > t)

\* what a sweep made with the clock reading of the sweep c would still remove
StillRemovable(c) ==
    IF c.impl = "memory"
    THEN {k \in DOMAIN memoryCache : Expired(memoryCache[k], c.appliedAt)}
    ELSE {r \in cacheTable : r.expires_at < c.at}

\* C32: the background sweep is safe with live traffic.  In every interleaving with set and
\* get calls a sweep deletes only entries that are expired at the time of the deletion, never
\* an unexpired one (an entry written again before the deletion included), and a sweep run
\* again right after itself removes nothing more.
C32_SweepRemovesOnlyExpired ==
    \A c \in Applied :
        LET j == cacheJobs[c]
        IN  j.op = "cleanup" =>
              /\ \A e \in j.removed : ExpiredAt(j.impl, e, j.appliedAt)
              /\ j.result = Cardinality(j.removed)
              /\ (j.order = Cardinality(Applied)) => StillRemovable(j) = {}

\* a sweep deleted an expired row while a row written after the sweep was called, and applied
\* before the deletion, stayed in the store
C32_Witness ==
    \E c, p \in Applied :
        /\ cacheJobs[c].op = "cleanup" /\ cacheJobs[c].impl = "table"
        /\ cacheJobs[c].removed # {}
        /\ cacheJobs[p].op = "set" /\ p > c /\ cacheJobs[p].order < cacheJobs[c].order
        /\ EntryOf(cacheJobs[p]) \in cacheTable

----------------------------------------------------------------------------
(* Rate-limit key generators, middleware/rate-limiter.ts.  The limiters    *)
(* made by organizationRateLimit, userRateLimit and endpointRateLimit keep *)
(* their counters in the same 'rate_limits' table as the default limiter.  *)

\* requests with an address that contains the delimiter of the keys (as an IPv6 address does)
KeyRequests ==
    [xorg : {OrgA, OrgAT}, fwd : {<<"c">>, <<"t", ":", "c">>}, xuser : {<<"c">>}]

Endpoints == {<<"t">>}

\* organizationRateLimit: `rate_limit:${organizationId}:${ip}`
organizationRateLimit(req) ==
    LET organizationId == IF Truthy(req.xorg) THEN req.xorg ELSE <<"n">>
        ip == IF Truthy(req.fwd) THEN Split(req.fwd, ",")[1] ELSE <<"u">>
    IN  RateLimitPrefix \o <<Delim>> \o organizationId \o <<Delim>> \o ip

\* userRateLimit: `rate_limit:${organizationId}:user:${userId}`
userRateLimit(req) ==
    LET organizationId == IF Truthy(req.xorg) THEN req.xorg ELSE <<"n">>
        userId == IF Truthy(req.xuser) THEN req.xuser ELSE <<"n">>
    IN  RateLimitPrefix \o <<Delim>> \o organizationId \o <<Delim, "user", Delim>> \o userId

\* endpointRateLimit: `rate_limit:${organizationId}:${endpoint}:${ip}`
endpointRateLimit(req, endpoint) ==
    LET organizationId == IF Truthy(req.xorg) THEN req.xorg ELSE <<"n">>
        ip == IF Truthy(req.fwd) THEN Split(req.fwd, ",")[1] ELSE <<"u">>
    IN  RateLimitPrefix \o <<Delim>> \o organizationId \o <<Delim>> \o endpoint
            \o <<Delim>> \o ip

\* the limiters: the key generator of each and the subject it counts for
Limiters ==
    {[gen |-> g, endpoint |-> Undefined] : g \in {"default", "organization", "user"}}
        \cup {[gen |-> "endpoint", endpoint |-> e] : e \in Endpoints}

KeyOf(limiter, req) ==
    CASE limiter.gen = "default" -> defaultKeyGenerator(req)
      [] limiter.gen = "organization" -> organizationRateLimit(req)
      [] limiter.gen = "user" -> userRateLimit(req)
      [] limiter.gen = "endpoint" -> endpointRateLimit(req, limiter.endpoint)

\* RateLimiter.check of one of the limiters, up to its first await
CheckKeyed ==
    \E p \in 1..MaxKeyCalls, req \in KeyRequests, limiter \in Limiters :
        /\ InFlight = {}
        /\ rl[p].pc = "idle"
        /\ \A q \in 1..(p - 1) : rl[q].pc # "idle"
        /\ rl' = [rl EXCEPT ![p] =
                    [pc |-> "select", key |-> KeyOf(limiter, req),
                     subject |-> SubjectOf(req, IF limiter.gen = "user" THEN "user" ELSE "ip",
                                           limiter.endpoint),
                     now |-> now, fault |-> FALSE]]
        /\ UNCHANGED rateStore
        /\ RateStep

NextKeys ==
    \/ CheckKeyed
    \/ Select
    \/ UpdateRateLimitEntry

SpecKeys == InitRate /\ [][NextKeys]_vars

\* C33: rate-limit counters are isolated per subject (organization, identity, endpoint).
\* Two checks made for different subjects use different keys, and the first check made for a
\* subject finds a fresh counter whatever checks were made for other subjects before it.
C33_SubjectsIsolated ==
    /\ \A p, q \in Calls :
          (rl[p].pc # "idle" /\ rl[q].pc # "idle" /\ rl[p].subject # rl[q].subject)
              => rl[p].key # rl[q].key
    /\ \A p \in Calls :
          (/\ rl[p].pc = "done"
           /\ \A q \in 1..(p - 1) : rl[q].subject # rl[p].subject)
              => /\ rl[p].result.allowed
                 /\ rl[p].result.info.remaining = MaxRequests - 1

----------------------------------------------------------------------------
(* Frame properties of the in-memory cache *)

\* C34: no cache operation parameterised by one organization changes another organization's
\* entries: a setCacheItem, deleteCacheItem, clearResourceTypeCache or clearOrganizationCache
\* called with organization A leaves every entry stored by another organization present,
\* with its value and expiry unchanged.
C34_NoCrossOrganizationWrite ==
    [][(/\ cacheRes'.op \in {"set", "delete", "clearType", "clearOrg"}
        /\ cacheRes'.impl = "memory"
        /\ cacheOps' = cacheOps + 1)
          => \A k \in DOMAIN memoryCache :
                memoryCache[k].organizationId # cacheRes'.org
                    => (k \in DOMAIN memoryCache' /\ memoryCache'[k] = memoryCache[k])]_vars

----------------------------------------------------------------------------
(* Clearing one resource type.  The entries carry their resource type in   *)
(* their payload, so that what a clear removed can be compared with what   *)
(* was stored for the type.                                                *)

\* a resource type and one that has it as a proper string prefix ('course', 'courses')
TypedResourceTypes == {<<"t">>, <<"t", "t">>}

\* part_010 clearResourceTypeCache: delete where organization_id = organizationId and
\* cache_key like `${organizationId}:${resourceType}:%`; returns the number of rows deleted
orgCacheClearResourceTypeCache(organizationId, resourceType) ==
    LET pattern == organizationId \o <<Delim>> \o resourceType \o <<Delim>>
        gone == {r \in cacheTable : /\ r.organization_id = organizationId
                                    /\ StartsWith(r.cache_key, pattern)}
    IN  /\ cacheTable' = cacheTable \ gone
        /\ cacheRes' = CacheCall("table", "clearType", organizationId, resourceType, Undefined,
                                 Cardinality(gone))

TypedSetCacheItem ==
    \E o \in OrgIds, t \in TypedResourceTypes, i \in ResourceIds, ttl \in TtlSeconds :
        /\ CacheStep("memory")
        /\ setCacheItem(o, t, i, [owner |-> o, v |-> 1, type |-> t], ttl)
        /\ UNCHANGED cacheTable

TypedClearResourceTypeCache ==
    \E o \in OrgIds, t \in TypedResourceTypes :
        /\ CacheStep("memory")
        /\ clearResourceTypeCache(o, t)
        /\ UNCHANGED cacheTable

TypedOrgCacheSet ==
    \E o \in OrgIds, t \in TypedResourceTypes, i \in ResourceIds \ {Undefined},
       ttl \in TtlSeconds :
        /\ CacheStep("table")
        /\ OrganizationCacheSet(o, t, i, [owner |-> o, v |-> 1, type |-> t], ttl)
        /\ UNCHANGED memoryCache

OrgCacheClearResourceTypeCache ==
    \E o \in OrgIds, t \in TypedResourceTypes :
        /\ CacheStep("table")
        /\ orgCacheClearResourceTypeCache(o, t)
        /\ UNCHANGED memoryCache

NextClear ==
    \/ TypedSetCacheItem
    \/ TypedClearResourceTypeCache
    \/ TypedOrgCacheSet
    \/ OrgCacheClearResourceTypeCache

SpecClear == InitCache /\ [][NextClear]_vars

\* the entries of the organization stored for the resource type
MemoryOfType(organizationId, resourceType) ==
    {k \in DOMAIN memoryCache : /\ memoryCache[k].organizationId = organizationId
                                /\ memoryCache[k].data.type = resourceType}
RowsOfType(organizationId, resourceType) ==
    {r \in cacheTable : r.organization_id = organizationId /\ r.data.type = resourceType}

\* C35: clearResourceTypeCache(orgId, type) removes exactly the entries of that organization
\* whose resource type equals type, entries of the organization with another type (one that
\* has the given type as a string prefix included) stay, and the count returned is the
\* number of entries removed.
C35_ClearsExactlyTheType ==
    [][(cacheRes'.op = "clearType" /\ cacheOps' = cacheOps + 1)
          => /\ (DOMAIN memoryCache) \ (DOMAIN memoryCache')
                    = MemoryOfType(cacheRes'.org, cacheRes'.type)
             /\ cacheTable \ cacheTable' = RowsOfType(cacheRes'.org, cacheRes'.type)
             /\ cacheRes'.result
                    = Cardinality((DOMAIN memoryCache) \ (DOMAIN memoryCache'))
                          + Cardinality(cacheTable \ cacheTable')]_vars

----------------------------------------------------------------------------
(* Cache keys, part_010 *)

NoKey == [organizationId |-> Null, resourceType |-> Null, resourceId |-> Null]

\* part_010 parseCacheKey: null unless the key splits into exactly three parts
parseCacheKey(cacheKey) ==
    LET parts == Split(cacheKey, Delim)
    IN  IF Len(parts) # 3 THEN NoKey
        ELSE [organizationId |-> parts[1], resourceType |-> parts[2], resourceId |-> parts[3]]

\* C36: cache key construction is injective, and parseCacheKey(createCacheKey(o, t, i))
\* returns exactly (o, t, i): the key an OrganizationCache call builds parses back to the
\* call's components, and two rows of different organizations never have the same key.
C36_KeyRoundTrip ==
    /\ (cacheRes.op \in {"set", "get", "delete"} /\ cacheRes.impl = "table")
          => parseCacheKey(orgCacheCreateCacheKey(cacheRes.org, cacheRes.type, cacheRes.id))
                = [organizationId |-> cacheRes.org, resourceType |-> cacheRes.type,
                   resourceId |-> cacheRes.id]
    /\ \A r1, r2 \in cacheTable :
          r1.cache_key = r2.cache_key => r1.organization_id = r2.organization_id

----------------------------------------------------------------------------
(* Bounds of the rate-limit counters *)

\* C37: in every reachable state, concurrent checks included, every stored count satisfies
\* 0 <= count <= maxRequests, and every result of check has 0 <= remaining <= limit, with
\* remaining = 0 on every denied result.
C37_CountAndRemainingBounded ==
    /\ \A k \in DOMAIN rateStore :
          rateStore[k].count >= 0 /\ rateStore[k].count <= MaxRequests
    /\ \A p \in Calls :
          rl[p].pc = "done" =>
              /\ rl[p].result.info.limit = MaxRequests
              /\ rl[p].result.info.remaining >= 0
              /\ rl[p].result.info.remaining <= rl[p].result.info.limit
              /\ ~rl[p].result.allowed => rl[p].result.info.remaining = 0

\* two checks of one subject were admitted and a third was denied with nothing remaining,
\* the stored counter standing at the limit
C37_Witness ==
    \E p, q, d \in Calls :
        /\ rl[p].pc = "done" /\ rl[q].pc = "done" /\ rl[d].pc = "done"
        /\ p # q /\ rl[p].key = rl[d].key /\ rl[q].key = rl[d].key
        /\ rl[p].result.allowed /\ rl[q].result.allowed
        /\ ~rl[d].result.allowed /\ rl[d].result.info.remaining = 0
        /\ HasEntry(rl[d].key)
        /\ rateStore[rl[d].key].count = MaxRequests

----------------------------------------------------------------------------
(* Fetches of a read-through *)

\* C38: one call of getCachedData invokes the fetcher at most once, whatever cache store
\* call fails: not at all when it returns an unexpired cached value, exactly once otherwise.
C38_FetcherAtMostOnce ==
    \A p \in ReadsDone :
        rd[p].via = "getCachedData" =>
            /\ rd[p].fetches <= 1
            /\ rd[p].fetches = 0 => ~rd[p].fault

----------------------------------------------------------------------------
(* The organization-access helpers side by side *)

\* the caller's organization as each helper receives it: an id, absent, or the empty string
UserOrganizations == {OrgA, OrgAT, Undefined, <<>>}
TargetOrganizations == {OrgA, OrgAT}

\* part_009 errorUtils.validateOrganizationAccess: the error it throws, or "none"
errorUtilsValidateOrganizationAccess(userOrganizationId, targetOrganizationId, userRole) ==
    IF ~Truthy(userOrganizationId) THEN "AuthenticationError"
    ELSE IF userRole = "super_admin" THEN "none"
    ELSE IF userOrganizationId # targetOrganizationId THEN "AuthorizationError"
    ELSE "none"

\* contexts/organization-context.tsx useCanAccessOrganization, given what useOrganization
\* returns
useCanAccessOrganization(organizationId, role, targetOrganizationId) ==
    IF ~Truthy(organizationId) THEN FALSE
    ELSE IF role = "super_admin" THEN TRUE
    ELSE organizationId = targetOrganizationId

\* every helper is asked the same question; allow is TRUE, deny is FALSE
OrganizationAccess ==
    \E r \in Roles, u \in UserOrganizations, t \in TargetOrganizations :
        /\ az' = [op |-> "organizationAccess", role |-> r, userOrg |-> u, target |-> t,
                  jwtUtils |-> validateOrganizationAccess(u, t, r),
                  authMiddleware |-> mwValidateOrganizationAccess(
                                        [organizationId |-> u, userId |-> UserU, role |-> r], t),
                  apiUtils |-> ~apiValidateOrganizationAccess(
                                   [xorg |-> u, xuser |-> UserU, xrole |-> r], t).thrown,
                  errorUtils |-> errorUtilsValidateOrganizationAccess(u, t, r) = "none",
                  hook |-> useCanAccessOrganization(u, r, t)]
        /\ AuthStep

NextAccess ==
    \/ OrganizationAccess
    \/ Tick

SpecAccess == InitAuth /\ [][NextAccess]_vars

\* C39: all organization-access helpers agree on allow versus deny for every
\* (role, userOrganizationId, targetOrganizationId), an absent userOrganizationId included,
\* and all of them allow a super_admin.
C39_HelpersAgree ==
    az.op = "organizationAccess" =>
        /\ az.authMiddleware = az.jwtUtils
        /\ az.apiUtils = az.jwtUtils
        /\ az.errorUtils = az.jwtUtils
        /\ az.hook = az.jwtUtils
        /\ az.role = "super_admin" =>
              (az.jwtUtils /\ az.authMiddleware /\ az.apiUtils /\ az.errorUtils /\ az.hook)

----------------------------------------------------------------------------
(* Migration runner, part_008 MigrationRunner.  The migration files are    *)
(* the versions 1..MaxMigrations, sorted by file name.  run.log is what    *)
(* the current call of runMigrations has attempted, in order.              *)

\* getAvailableMigrations
AvailableMigrations == [v \in 1..MaxMigrations |-> v]

\* the elements of seq that are not in dropped, in the order of seq
RECURSIVE FilterSeq(_, _)
FilterSeq(seq, dropped) ==
    IF seq = <<>> THEN <<>>
    ELSE IF Head(seq) \in dropped THEN FilterSeq(Tail(seq), dropped)
    ELSE <<Head(seq)>> \o FilterSeq(Tail(seq), dropped)

\* the run after executeMigration returned success for the head of the pending list
Continued(version, ok) ==
    IF ~ok
    THEN [run EXCEPT !.pc = "returned", !.result = FALSE,
                     !.log = Append(@, [version |-> version, ok |-> FALSE])]
    ELSE IF Tail(run.pending) = <<>>
    THEN [run EXCEPT !.pc = "returned", !.result = TRUE, !.pending = <<>>,
                     !.log = Append(@, [version |-> version, ok |-> TRUE])]
    ELSE [run EXCEPT !.pending = Tail(@),
                     !.log = Append(@, [version |-> version, ok |-> TRUE])]

MigrationStep ==
    UNCHANGED <<now, cacheVars, rateVars, authVars, apiVars, dbVars, auditVars, emailVars,
                storeVars>>

\* runMigrations up to its loop; getExecutedMigrations read the schema_migrations table
RunMigrations ==
    LET pendingMigrations == FilterSeq(AvailableMigrations, schemaMigrations)
    IN  /\ run.pc \in {"idle", "returned"}
        /\ run.n < MaxRuns
        /\ run' = IF pendingMigrations = <<>>
                  THEN [pc |-> "returned", n |-> run.n + 1, pending |-> <<>>, log |-> <<>>,
                        result |-> TRUE]
                  ELSE [pc |-> "executing", n |-> run.n + 1, pending |-> pendingMigrations,
                        log |-> <<>>, result |-> TRUE]
        /\ UNCHANGED <<schemaMigrations, executions>>
        /\ MigrationStep

\* runMigrations up to its loop; the select of getExecutedMigrations failed, which makes it
\* return the empty list
RunMigrationsSelectError ==
    /\ run.pc \in {"idle", "returned"}
    /\ run.n < MaxRuns
    /\ run' = [pc |-> "executing", n |-> run.n + 1, pending |-> AvailableMigrations,
               log |-> <<>>, result |-> TRUE]
    /\ UNCHANGED <<schemaMigrations, executions>>
    /\ MigrationStep

\* executeMigration: the SQL is executed and the version is recorded
ExecuteMigration ==
    /\ run.pc = "executing"
    /\ Head(run.pending) \notin schemaMigrations
    /\ executions' = Append(executions, Head(run.pending))
    /\ schemaMigrations' = schemaMigrations \cup {Head(run.pending)}
    /\ run' = Continued(Head(run.pending), TRUE)
    /\ MigrationStep

\* executeMigration: exec_sql resolves with an error (or rejects); nothing is recorded
ExecuteMigrationExecError ==
    /\ run.pc = "executing"
    /\ run' = Continued(Head(run.pending), FALSE)
    /\ UNCHANGED <<schemaMigrations, executions>>
    /\ MigrationStep

\* executeMigration: the SQL is executed and the insert into schema_migrations fails
\* (as it does when the version is recorded already)
ExecuteMigrationRecordError ==
    /\ run.pc = "executing"
    /\ executions' = Append(executions, Head(run.pending))
    /\ run' = Continued(Head(run.pending), FALSE)
    /\ UNCHANGED schemaMigrations
    /\ MigrationStep

InitMigration ==
    /\ now = 0
    /\ cacheImpl = "memory"
    /\ memoryCache = <<>>
    /\ cacheTable = {}
    /\ cacheRes = NoCall
    /\ cacheOps = 0
    /\ rateStore = <<>>
    /\ rl = <<>>
    /\ az = NoCall
    /\ ApiIdle
    /\ DbIdle
    /\ AuditIdle
    /\ EmailIdle
    /\ StoreIdle
    /\ MigrationIdle

NextMigration ==
    \/ RunMigrations
    \/ RunMigrationsSelectError
    \/ ExecuteMigration
    \/ ExecuteMigrationExecError
    \/ ExecuteMigrationRecordError

SpecMigration == InitMigration /\ [][NextMigration]_vars

\* C40: across any sequence of runMigrations calls, one after a failed run included, a
\* migration whose SQL has been executed is never executed a second time, and a run stops at
\* the first failing migration without executing any later one.
C40_MigrationsExecutedOnce ==
    /\ \A i, j \in DOMAIN executions : i # j => executions[i] # executions[j]
    /\ \A i \in 1..(Len(run.log) - 1) : run.log[i].ok
    /\ (run.pc = "returned" /\ ~run.result) => (run.log # <<>> /\ ~run.log[Len(run.log)].ok)


====
